---- MODULE Spec2Model ----
(***************************************************************************)
(* hyprfinity: span geometry, size policy, the window fit loop and the     *)
(* gamescope session lifecycle (gamescope_up / gamescope_down).            *)
(*                                                                         *)
(* Four specifications share the variables below:                          *)
(*   SpecSpan  compute_monitor_span applied to bounded monitor lists       *)
(*   SpecSize  derive_output_size / derive_internal_size on bounded inputs *)
(*   SpecFit   fit_window_to_span against a simulated window               *)
(*   Spec      one gamescope_up session, its interrupt handler runs and a  *)
(*             standalone gamescope_down process                           *)
(***************************************************************************)
EXTENDS Integers, Sequences, FiniteSets, TLC

(***************************************************************************)
(* Bounds of the model.                                                    *)
(***************************************************************************)
MaxMonitors == 2
MaxBound == 7

(***************************************************************************)
(* Arithmetic helpers (Rust i32 / f32 operations).                         *)
(***************************************************************************)
Min(a, b) == IF a <= b THEN a ELSE b
Max(a, b) == IF a >= b THEN a ELSE b
Abs(a) == IF a < 0 THEN -a ELSE a

I32Max == (2^30 - 1) * 2 + 1
I32Min == (-I32Max) - 1

\* Option<i32>
None == <<>>
Some(v) == <<v>>
IsSome(o) == Len(o) = 1
Unwrap(o) == o[1]

\* Result<T, E>
Err(e) == [tag |-> "Err", err |-> e]
Ok(v) == [tag |-> "Ok", val |-> v]

\* ((n as f32) / (d as f32)).round() as i32: f32::round rounds half away from
\* zero; the cast saturates, +-inf -> i32::MAX / i32::MIN and NaN -> 0.  The
\* f32 operations are exact for the magnitudes explored here (< 2^24).
RoundDivF32_Truncate(n, d) ==
    IF d = 0
    THEN IF n > 0 THEN I32Max ELSE IF n < 0 THEN I32Min ELSE 0
    ELSE LET sn == IF d < 0 THEN -n ELSE n
             sd == Abs(d)
         IN IF sn >= 0 THEN sn \div sd ELSE -((-sn) \div sd)

RoundDivF32(n, d) ==
    IF d = 0
    THEN IF n > 0 THEN I32Max ELSE IF n < 0 THEN I32Min ELSE 0
    ELSE LET sn == IF d < 0 THEN -n ELSE n
             sd == Abs(d)
         IN IF sn >= 0
            THEN (2 * sn + sd) \div (2 * sd)
            ELSE -((2 * (-sn) + sd) \div (2 * sd))

(***************************************************************************)
(* util.rs                                                                 *)
(***************************************************************************)
clamp_i32_NoUpper(v, min, max) == Max(v, min)

clamp_i32(v, min, max) == Min(Max(v, min), max)

even_floor_KeepOdd(v) == IF v <= 2 THEN 2 ELSE v

even_floor_RoundUp(v) ==
    IF v <= 2 THEN 2
    ELSE IF v % 2 = 0 THEN v
    ELSE v + 1

even_floor(v) ==
    IF v <= 2 THEN 2
    ELSE IF v % 2 = 0 THEN v
    ELSE v - 1

\* The f32 scale is a dyadic rational <<numerator, denominator>>, which f32
\* represents exactly; (span as f32 * scale).round() as i32.
scaled_dimensions_IgnoreScale(span_width, span_height, scale) ==
    <<even_floor(clamp_i32(span_width, 2, span_width)),
      even_floor(clamp_i32(span_height, 2, span_height))>>

scaled_dimensions(span_width, span_height, scale) ==
    LET w == RoundDivF32(span_width * scale[1], scale[2])
        h == RoundDivF32(span_height * scale[1], scale[2])
    IN <<even_floor(clamp_i32(w, 2, span_width)),
         even_floor(clamp_i32(h, 2, span_height))>>

(***************************************************************************)
(* gamescope.rs: size policy                                               *)
(***************************************************************************)
derive_internal_size(span_width, span_height, render_scale, virtual_width, virtual_height) ==
    IF IsSome(virtual_width) /\ IsSome(virtual_height)
    THEN <<even_floor(clamp_i32(Unwrap(virtual_width), 2, span_width)),
           even_floor(clamp_i32(Unwrap(virtual_height), 2, span_height))>>
    ELSE IF IsSome(virtual_width)
    THEN LET w == even_floor(clamp_i32(Unwrap(virtual_width), 2, span_width))
             h == RoundDivF32(w * span_height, span_width)
         IN <<w, even_floor(clamp_i32(h, 2, span_height))>>
    ELSE IF IsSome(virtual_height)
    THEN LET h == even_floor(clamp_i32(Unwrap(virtual_height), 2, span_height))
             w == RoundDivF32(h * span_width, span_height)
         IN <<even_floor(clamp_i32(w, 2, span_width)), h>>
    ELSE scaled_dimensions(span_width, span_height, render_scale)

derive_output_size(span_width, span_height, output_width, output_height) ==
    IF IsSome(output_width) /\ IsSome(output_height)
    THEN <<even_floor(clamp_i32(Unwrap(output_width), 2, span_width)),
           even_floor(clamp_i32(Unwrap(output_height), 2, span_height))>>
    ELSE IF IsSome(output_width)
    THEN LET w == even_floor(clamp_i32(Unwrap(output_width), 2, span_width))
             h == RoundDivF32(w * span_height, span_width)
         IN <<w, even_floor(clamp_i32(h, 2, span_height))>>
    ELSE IF IsSome(output_height)
    THEN LET h == even_floor(clamp_i32(Unwrap(output_height), 2, span_height))
             w == RoundDivF32(h * span_width, span_height)
         IN <<even_floor(clamp_i32(w, 2, span_width)), h>>
    ELSE <<span_width, span_height>>

(***************************************************************************)
(* picker.rs: build_size_presets                                           *)
(***************************************************************************)
\* [0.9, 0.85, 0.8, 0.75, 0.67, 0.6, 0.5], each taken at its decimal value
PresetScales ==
    <<<<9, 10>>, <<17, 20>>, <<4, 5>>, <<3, 4>>, <<67, 100>>, <<3, 5>>, <<1, 2>>>>

\* [1440, 1200, 1080, 900, 720]
CommonHeights == <<1440, 1200, 1080, 900, 720>>

\* the closure `add`: sizes that are not positive or exceed the span are
\* dropped, and so is a size already in `seen`
preset_add(options, size, span_width, span_height) ==
    IF size[1] <= 0 \/ size[2] <= 0 \/ size[1] > span_width \/ size[2] > span_height
    THEN options
    ELSE IF \E i \in DOMAIN options : options[i] = size
    THEN options
    ELSE Append(options, size)

\* the sizes handed to `add`, in order: the native span, the scaled spans, the
\* common heights below the span height with the width that keeps the aspect
preset_candidates(span_width, span_height) ==
    LET heights == SelectSeq(CommonHeights, LAMBDA target_h : ~(target_h >= span_height))
    IN <<<<span_width, span_height>>>>
         \o [i \in DOMAIN PresetScales |->
                scaled_dimensions(span_width, span_height, PresetScales[i])]
         \o [i \in DOMAIN heights |->
                <<even_floor(clamp_i32(RoundDivF32(heights[i] * span_width, span_height),
                                       2, span_width)),
                  heights[i]>>]

RECURSIVE preset_fold(_, _, _, _)
preset_fold(candidates, options, span_width, span_height) ==
    IF candidates = <<>> THEN options
    ELSE preset_fold(Tail(candidates),
                     preset_add(options, Head(candidates), span_width, span_height),
                     span_width, span_height)

\* the <<width, height>> of the SizePresets, in the order they are offered
build_size_presets(span_width, span_height) ==
    preset_fold(preset_candidates(span_width, span_height), <<>>, span_width, span_height)

\* pick_internal_size: Ok(None) when there is no preset or nothing was selected,
\* else Ok(Some(size of the selected preset)); Err when skim cannot be set up
pick_internal_size(span_width, span_height) ==
    LET options_data == build_size_presets(span_width, span_height)
    IN {Err("Failed to build skim options"), Ok(None)}
         \cup {Ok(Some(options_data[i])) : i \in DOMAIN options_data}

\* One command-line argument: the text `head` followed by nothing (rest = ""),
\* by "=value" (rest = "=") or by other text (rest = "x"); Str(n) is n.to_string().
Arg(head, rest) == [head |-> head, rest |-> rest, num |-> 0]
Str(n) == [head |-> "", rest |-> "digits", num |-> n]
NoArgs == <<>>

has_arg_ExactOnly(args, flag) ==
    \E i \in 1..Len(args) : args[i].head = flag /\ args[i].rest = ""

\* has_arg: arg == flag, or arg starts with "flag=", or the flag is a two
\* character one and arg is longer and starts with it
has_arg(args, flag) ==
    \E i \in 1..Len(args) :
        /\ args[i].head = flag
        /\ \/ args[i].rest = ""
           \/ args[i].rest = "="
           \/ flag \in {"-W", "-H", "-w", "-h"} /\ args[i].rest # ""

\* args.iter().position(|a| a == "--"): the first index, 0 for None
SeparatorIndex(args) ==
    IF \E i \in 1..Len(args) : args[i] = Arg("--", "")
    THEN CHOOSE i \in 1..Len(args) :
            /\ args[i] = Arg("--", "")
            /\ \A j \in 1..(i - 1) : args[j] # Arg("--", "")
    ELSE 0

build_gamescope_args_with_internal(args, span_width, span_height, internal_width, internal_height) ==
    LET idx == SeparatorIndex(args)
        pre0 == IF idx > 0 THEN SubSeq(args, 1, idx - 1) ELSE args
        post == IF idx > 0 THEN SubSeq(args, idx, Len(args)) ELSE <<>>
        has_output_w == has_arg(pre0, "-W") \/ has_arg(pre0, "--output-width")
        has_output_h == has_arg(pre0, "-H") \/ has_arg(pre0, "--output-height")
        has_nested_w == has_arg(pre0, "-w") \/ has_arg(pre0, "--nested-width")
        has_nested_h == has_arg(pre0, "-h") \/ has_arg(pre0, "--nested-height")
        pre1 == IF has_output_w THEN pre0 ELSE pre0 \o <<Arg("-W", ""), Str(span_width)>>
        pre2 == IF has_output_h THEN pre1 ELSE pre1 \o <<Arg("-H", ""), Str(span_height)>>
        pre3 == IF has_nested_w THEN pre2 ELSE pre2 \o <<Arg("-w", ""), Str(internal_width)>>
        pre4 == IF has_nested_h THEN pre3 ELSE pre3 \o <<Arg("-h", ""), Str(internal_height)>>
    IN pre4 \o post

(***************************************************************************)
(* hyprland.rs: compute_monitor_span                                       *)
(***************************************************************************)
Monitor(x, y, width, height) == [x |-> x, y |-> y, width |-> width, height |-> height]

\* iter().map(f).min() / .max(): a left fold over the slice; None when empty.
RECURSIVE IterMin(_, _)
IterMin(s, acc) ==
    IF s = <<>> THEN acc
    ELSE IterMin(Tail(s), IF acc = None THEN Some(Head(s)) ELSE Some(Min(Unwrap(acc), Head(s))))

RECURSIVE IterMax(_, _)
IterMax(s, acc) ==
    IF s = <<>> THEN acc
    ELSE IterMax(Tail(s), IF acc = None THEN Some(Head(s)) ELSE Some(Max(Unwrap(acc), Head(s))))

unwrap_or(o, d) == IF IsSome(o) THEN Unwrap(o) ELSE d

MapSeq(s, F(_)) == [i \in 1..Len(s) |-> F(s[i])]

compute_monitor_span_NoEmptyCheck(ms) ==
    LET min_x == unwrap_or(IterMin(MapSeq(ms, LAMBDA m : m.x), None), 0)
        min_y == unwrap_or(IterMin(MapSeq(ms, LAMBDA m : m.y), None), 0)
        max_x == unwrap_or(IterMax(MapSeq(ms, LAMBDA m : m.x + m.width), None), 0)
        max_y == unwrap_or(IterMax(MapSeq(ms, LAMBDA m : m.y + m.height), None), 0)
    IN Ok(<<min_x, min_y, max_x - min_x, max_y - min_y>>)

compute_monitor_span_FirstOrigin(ms) ==
    IF ms = <<>> THEN Err("No monitors detected.")
    ELSE LET min_x == ms[1].x
             min_y == ms[1].y
             max_x == unwrap_or(IterMax(MapSeq(ms, LAMBDA m : m.x + m.width), None), 0)
             max_y == unwrap_or(IterMax(MapSeq(ms, LAMBDA m : m.y + m.height), None), 0)
         IN Ok(<<min_x, min_y, max_x - min_x, max_y - min_y>>)

compute_monitor_span(ms) ==
    IF ms = <<>> THEN Err("No monitors detected.")
    ELSE LET min_x == unwrap_or(IterMin(MapSeq(ms, LAMBDA m : m.x), None), 0)
             min_y == unwrap_or(IterMin(MapSeq(ms, LAMBDA m : m.y), None), 0)
             max_x == unwrap_or(IterMax(MapSeq(ms, LAMBDA m : m.x + m.width), None), 0)
             max_y == unwrap_or(IterMax(MapSeq(ms, LAMBDA m : m.y + m.height), None), 0)
             span_width == max_x - min_x
             span_height == max_y - min_y
         IN Ok(<<min_x, min_y, span_width, span_height>>)

(***************************************************************************)
(* hyprland.rs: primary_client_for_pid, get_primary_window_selector        *)
(***************************************************************************)
\* types.rs Client; `at` plays no part in the selection
Client(pid, address, size) == [pid |-> pid, address |-> address, size |-> size]

\* format!("address:{}", a) and format!("pid:{}", pid)
AddressSelector(a) == [kind |-> "address", address |-> a, pid |-> 0]
PidSelector(pid) == [kind |-> "pid", address |-> "", pid |-> pid]

\* the key of max_by_key
client_area(c) ==
    LET sz == unwrap_or(c.size, <<0, 0>>)
    IN Max(sz[1], 0) * Max(sz[2], 0)

primary_client_for_pid_AnyPid(clients, pid) ==
    IF clients = <<>> THEN None
    ELSE LET i == CHOOSE i \in DOMAIN clients :
                     /\ \A j \in DOMAIN clients : client_area(clients[j]) <= client_area(clients[i])
                     /\ \A j \in DOMAIN clients :
                          j > i => client_area(clients[j]) < client_area(clients[i])
         IN Some(clients[i])

\* filter(..).max_by_key(..): of several maximal elements Iterator::max_by_key
\* returns the last
primary_client_for_pid(clients, pid) ==
    LET own == SelectSeq(clients, LAMBDA c : c.pid = pid)
    IN IF own = <<>> THEN None
       ELSE LET i == CHOOSE i \in DOMAIN own :
                        /\ \A j \in DOMAIN own : client_area(own[j]) <= client_area(own[i])
                        /\ \A j \in DOMAIN own :
                             j > i => client_area(own[j]) < client_area(own[i])
            IN Some(own[i])

\* the part of get_primary_window_selector after the client list is parsed
get_primary_window_selector(clients, pid) ==
    LET primary == primary_client_for_pid(clients, pid)
    IN IF IsSome(primary) /\ IsSome(Unwrap(primary).address)
       THEN AddressSelector(Unwrap(Unwrap(primary).address))
       ELSE PidSelector(pid)

(***************************************************************************)
(* config.rs: apply_config                                                 *)
(*                                                                         *)
(* An f32 is <<n, d>> for n / d with d > 0; <<1, 0>> and <<-1, 0>> are the  *)
(* infinities and <<0, 0>> is NaN, for which every comparison is false.    *)
(***************************************************************************)
F32NaN == <<0, 0>>
F32Lt(a, b) == a # F32NaN /\ b # F32NaN /\ a[1] * b[2] < b[1] * a[2]
F32Le(a, b) == a # F32NaN /\ b # F32NaN /\ a[1] * b[2] <= b[1] * a[2]

RenderScaleMin == <<1, 10>>
RenderScaleMax == <<1, 1>>

\* f32::clamp: `if x < min { x = min } if x > max { x = max }`, NaN stays NaN
f32_clamp(x, min, max) ==
    IF F32Lt(x, min) THEN min
    ELSE IF F32Lt(max, x) THEN max
    ELSE x

\* Option::or
opt_or(a, b) == IF IsSome(a) THEN a ELSE b

\* `if cli_flag { true } else { config_flag.unwrap_or(default) }`
flag_or(cli_flag, config_flag, default) ==
    IF cli_flag THEN TRUE ELSE unwrap_or(config_flag, default)

\* the render scale: CLI, else config, else 1.0; clamped when outside
\* (0.1..=1.0)
effective_render_scale(cli_render_scale, config_render_scale) ==
    LET render_scale == unwrap_or(opt_or(cli_render_scale, config_render_scale), <<1, 1>>)
    IN IF ~(F32Le(RenderScaleMin, render_scale) /\ F32Le(render_scale, RenderScaleMax))
       THEN f32_clamp(render_scale, RenderScaleMin, RenderScaleMax)
       ELSE render_scale

append_default_command_Always(args, default_command) ==
    IF IsSome(default_command)
    THEN args \o <<Arg("--", "")>> \o Unwrap(default_command)
    ELSE args

\* `if config.default_command.is_some() && !args.iter().any(|a| a == "--")`
append_default_command(args, default_command) ==
    IF IsSome(default_command) /\ ~(\E i \in DOMAIN args : args[i] = Arg("--", ""))
    THEN args \o <<Arg("--", "")>> \o unwrap_or(default_command, <<>>)
    ELSE args

apply_config(cli_args, cli_no_pin, cli_pick, cli_hide_waybar, cli_pick_size, cli_render_scale, cli_virtual_width, cli_virtual_height, cli_timeout, config) ==
    LET args == IF cli_args = <<>> THEN unwrap_or(config.gamescope_args, <<>>) ELSE cli_args
    IN [args |-> append_default_command(args, config.default_command),
        no_pin |-> flag_or(cli_no_pin, config.no_pin, FALSE),
        pick |-> flag_or(cli_pick, config.pick, FALSE),
        hide_waybar |-> flag_or(cli_hide_waybar, config.hide_waybar, TRUE),
        pick_size |-> flag_or(cli_pick_size, config.pick_size, FALSE),
        render_scale |-> effective_render_scale(cli_render_scale, config.render_scale),
        virtual_width |-> opt_or(cli_virtual_width, config.virtual_width),
        virtual_height |-> opt_or(cli_virtual_height, config.virtual_height),
        output_width |-> config.output_width,
        output_height |-> config.output_height,
        timeout |-> IF cli_timeout # 10 THEN cli_timeout
                    ELSE unwrap_or(config.startup_timeout_secs, 10)]

(***************************************************************************)
(* State                                                                   *)
(***************************************************************************)
VARIABLES
    \* SpecSpan
    monitors,       \* the monitor slice handed to compute_monitor_span
    span_res,       \* its Result, "pending" before the call
    \* SpecSize
    sz_in,          \* inputs of derive_*_size
    sz_out,         \* <<which, <<w, h>>>> once applied, "pending" before
    phase,          \* which specification / step the pure-function runs are in
    \* SpecClients
    cl_in,          \* [clients, pid]: the parsed `hyprctl clients -j` list and the pid
    cl_out,         \* [primary, selector] once applied
    \* SpecArgs
    args_in,        \* the caller's flag vector
    args_out,       \* the vector build_gamescope_args_with_internal returns
    \* SpecConfig
    conf_in,        \* apply_config's arguments
    conf_out,       \* the LaunchSettings it returns
    \* SpecWait
    wt,             \* one wait_for_client_pid call: [pc, pid, deadline, now, polls,
                    \* last, hit, res]
    \* fit_window_to_span (SpecFit, Spec)
    win,            \* the simulated window: how it answers a resize request
    fit_pc,         \* "idle", "move", "resize", "query", "final", "done"
    fit_caller,     \* who called: "direct", "initial", "reflow", "none"
    fit_tgt,        \* <<target_x, target_y, target_w, target_h>>
    fit_attempt,    \* the loop variable, 1..4
    fit_req,        \* <<req_w, req_h>>
    fit_obs,        \* the last reply of get_client_geometry, "none" before one
    fit_res,        \* "none", "fit" (Ok on convergence), "warned" (Ok after the
                    \* warning), "err"
    fit_cmds,       \* commands issued by this call: [move, resize, query] count
                    \* them, move_to holds the positions the moves asked for
    fit_const,      \* every attempt so far was answered at the target position
                    \* with size = requested size + win.off
    \* the session (Spec)
    cfg,            \* gamescope_up's arguments: [hide_waybar, no_pin, gamescope_args]
    proc,           \* the gamescope_up process: "running", "returned" (gamescope_up
                    \* returned and main ends), "exited" (process::exit(130))
    up_pc,          \* gamescope_up's position
    waybar_was_stopped,
    exit_hotkey,    \* TRUE for Some(ExitHotkey), FALSE for None
    span,           \* <<span_x, span_y, span_width, span_height>>
    window,         \* the window selector in scope: resolved at launch, or by the
                    \* reflow of tick `tick` (the `if let Ok(window)` binding)
    reflow_tick,
    up_res,         \* gamescope_up's result: "none", "ok", "err"
    up_fail,        \* the step whose error gamescope_up returns, "none" without one
    up_hist,        \* what gamescope_up did, for the properties
    handler_installed,
    shutting_down,  \* the AtomicBool
    dn,             \* the gamescope_down runs: executor 0 is the standalone command,
                    \* executors 1..MaxSignals are runs of the interrupt handler
    state_file,     \* FileAbsent, FilePartial (created, content not yet written) or
                    \* the GamescopeState it holds
    child,          \* gamescope: "none", "running", "exited" (not yet reaped), "reaped"
    waybar,         \* "running" or "stopped"
    binds,          \* the binds of SUPER SHIFT+F12 in Hyprland's table, by origin:
                    \* "hyprfinity" (this session's), "user" (one that `hyprctl
                    \* binds` prints with the text "SUPER SHIFT, F12" on a line),
                    \* "foreign" (one it prints otherwise, e.g. as modmask and key)
    effects         \* what the commands did: [waybar_starts, unbinds] count them,
                    \* earlier is the gamescope of an earlier session ("none",
                    \* "running", "exited"), cmd_failed tells that a waybar
                    \* restart (pgrep or the spawn) or an unbind has failed

fnVars == <<cl_in, cl_out, args_in, args_out, conf_in, conf_out, wt>>
pureVars == <<monitors, span_res, sz_in, sz_out, phase, fnVars>>
fitVars == <<win, fit_pc, fit_caller, fit_tgt, fit_attempt, fit_req, fit_obs, fit_res,
             fit_cmds, fit_const>>
upVars == <<cfg, proc, up_pc, waybar_was_stopped, exit_hotkey, span, window, reflow_tick, up_res,
            up_fail, up_hist, handler_installed>>
envVars == <<state_file, child, waybar, binds, effects>>
sessVars == <<upVars, shutting_down, dn, envVars>>
vars == <<pureVars, fitVars, sessVars>>

SizeIdle == [bw |-> 0, bh |-> 0, scale |-> <<1, 1>>, ow |-> None, oh |-> None]

Pending == [tag |-> "pending"]

ClientsIdle == cl_in = Pending /\ cl_out = Pending
ArgsIdle == args_in = <<>> /\ args_out = <<>>
ConfigIdle == conf_in = Pending /\ conf_out = Pending
WaitIdle == wt = Pending

SpanIdle == monitors = <<>> /\ span_res = "pending"
SizeIdleInit == sz_in = SizeIdle /\ sz_out = "pending"

NoCmds == [move |-> 0, resize |-> 0, query |-> 0, move_to |-> {}]

FitIdle ==
    /\ fit_pc = "idle"
    /\ fit_caller = "none"
    /\ fit_tgt = <<0, 0, 0, 0>>
    /\ fit_attempt = 1
    /\ fit_req = <<0, 0>>
    /\ fit_obs = [tag |-> "none"]
    /\ fit_res = "none"
    /\ fit_cmds = NoCmds
    /\ fit_const = TRUE

NoWindow == [off |-> <<0, 0>>, sizes |-> {}, shifts |-> {}, vanish |-> FALSE]

\* The state file: absent, created but still without its content, or holding a
\* GamescopeState.
FileAbsent == [kind |-> "absent"]
FilePartial == [kind |-> "partial"]
Nothing == [kind |-> "none"]

\* up_hist: rb_waybar / rb_unbind, the rollback attempted the waybar restart / the
\* unbind; init_fit, the result of the initial fit; exit_seen, try_wait reported
\* the child's exit; file_at_ret, the state file when gamescope_up returned;
\* trace, the activation steps in the order they were started; waits, try_wait
\* calls so far; reflow_ticks, the ticks in which a reflow was started;
\* reflow_err, some step of a reflow has failed; writes, calls of
\* std::fs::write on the state file.
NoHist == [rb_waybar |-> FALSE, rb_unbind |-> FALSE, init_fit |-> "none",
           exit_seen |-> FALSE, file_at_ret |-> Nothing, trace |-> <<>>, waits |-> 0,
           reflow_ticks |-> {}, reflow_err |-> FALSE, writes |-> 0]

\* The window selector: none yet, the one resolved at launch, or the one
\* resolved by the reflow of a tick.
NoSelector == [at |-> "none", tick |-> 0]
LaunchSelector == [at |-> "launch", tick |-> 0]
TickSelector(t) == [at |-> "tick", tick |-> t]

NoEffects == [waybar_starts |-> 0, unbinds |-> 0, earlier |-> "none", cmd_failed |-> FALSE]
DownIdle == [pc |-> "load", st |-> Nothing, did |-> {}, start |-> Nothing, end |-> Nothing]

\* The session variables of a specification that runs no session.
SessIdle ==
    /\ cfg = [hide_waybar |-> FALSE, no_pin |-> FALSE, gamescope_args |-> NoArgs]
    /\ proc = "none"
    /\ up_pc = "none"
    /\ waybar_was_stopped = FALSE
    /\ exit_hotkey = FALSE
    /\ span = <<0, 0, 0, 0>>
    /\ window = NoSelector
    /\ reflow_tick = 0
    /\ up_res = "none"
    /\ up_fail = "none"
    /\ up_hist = NoHist
    /\ handler_installed = FALSE
    /\ shutting_down = FALSE
    /\ dn = <<>>
    /\ state_file = FileAbsent
    /\ child = "none"
    /\ waybar = "stopped"
    /\ binds = {}
    /\ effects = NoEffects

(***************************************************************************)
(* SpecSpan: compute_monitor_span over bounded monitor lists               *)
(***************************************************************************)
MonXs == {-2, 0, 1}
MonYs == {0, 1}
MonWidths == {0, 1, 3}
MonHeights == {0, 2}
MonitorDomain ==
    {Monitor(x, y, w, h) : x \in MonXs, y \in MonYs, w \in MonWidths, h \in MonHeights}
MonitorLists == UNION {[1..n -> MonitorDomain] : n \in 0..MaxMonitors}

InitSpan ==
    /\ monitors \in MonitorLists
    /\ span_res = "pending"
    /\ SizeIdleInit
    /\ phase = "span_input"
    /\ ClientsIdle /\ ArgsIdle /\ ConfigIdle /\ WaitIdle
    /\ win = NoWindow
    /\ FitIdle
    /\ SessIdle

ComputeSpan ==
    /\ phase = "span_input"
    /\ span_res' = compute_monitor_span(monitors)
    /\ phase' = "span_done"
    /\ UNCHANGED <<monitors, sz_in, sz_out, fnVars, fitVars, sessVars>>

NextSpan == ComputeSpan

SpecSpan == InitSpan /\ [][NextSpan]_vars

(***************************************************************************)
(* SpecSize: the size policy over bounded inputs                           *)
(***************************************************************************)
BoundVals == 0..MaxBound
ScaleVals == {<<-1, 4>>, <<0, 1>>, <<1, 8>>, <<1, 2>>, <<3, 4>>, <<1, 1>>, <<5, 4>>}
OverrideVals == {-3, 0, 1, 2, 3, 4, 5, 6, 7, 9}
OptOverrides == {None} \cup {Some(v) : v \in OverrideVals}

InitSize ==
    /\ sz_in \in [bw : BoundVals, bh : BoundVals, scale : ScaleVals,
                  ow : OptOverrides, oh : OptOverrides]
    /\ sz_out = "pending"
    /\ SpanIdle
    /\ phase = "size_input"
    /\ ClientsIdle /\ ArgsIdle /\ ConfigIdle /\ WaitIdle
    /\ win = NoWindow
    /\ FitIdle
    /\ SessIdle

DeriveInternal ==
    /\ phase = "size_input"
    /\ sz_out' = derive_internal_size(sz_in.bw, sz_in.bh, sz_in.scale, sz_in.ow, sz_in.oh)
    /\ phase' = "internal_done"
    /\ UNCHANGED <<monitors, span_res, sz_in, fnVars, fitVars, sessVars>>

DeriveOutput ==
    /\ phase = "size_input"
    /\ sz_out' = derive_output_size(sz_in.bw, sz_in.bh, sz_in.ow, sz_in.oh)
    /\ phase' = "output_done"
    /\ UNCHANGED <<monitors, span_res, sz_in, fnVars, fitVars, sessVars>>

NextSize == DeriveInternal \/ DeriveOutput

SpecSize == InitSize /\ [][NextSize]_vars

(***************************************************************************)
(* SpecLaunch: the sizes gamescope_up hands to                             *)
(* build_gamescope_args_with_internal, from the span to the size picker    *)
(***************************************************************************)
LaunchSpans == {<<4, 4>>, <<6, 4>>, <<7, 5>>, <<3840, 1080>>, <<5760, 1600>>}
LaunchScales == {<<1, 10>>, <<1, 2>>, <<1, 1>>}
LaunchOutputs == {None, Some(2), Some(1920)}
LaunchVirtuals == {None, Some(3), Some(1280)}

InitLaunch ==
    /\ sz_in \in [span : LaunchSpans, render_scale : LaunchScales,
                  output_width : LaunchOutputs, output_height : LaunchOutputs,
                  virtual_width : LaunchVirtuals, virtual_height : LaunchVirtuals,
                  pick_size : BOOLEAN]
    /\ sz_out = "pending"
    /\ SpanIdle
    /\ phase = "launch_input"
    /\ ClientsIdle /\ ArgsIdle /\ ConfigIdle /\ WaitIdle
    /\ win = NoWindow
    /\ FitIdle
    /\ SessIdle

\* derive_output_size, then derive_internal_size against the output size
LaunchDerive ==
    /\ phase = "launch_input"
    /\ LET output == derive_output_size(sz_in.span[1], sz_in.span[2],
                                        sz_in.output_width, sz_in.output_height)
           internal == derive_internal_size(output[1], output[2], sz_in.render_scale,
                                            sz_in.virtual_width, sz_in.virtual_height)
       IN sz_out' = [output |-> output, internal |-> internal, picked |-> Ok(None)]
    /\ phase' = IF sz_in.pick_size THEN "launch_pick" ELSE "launch_done"
    /\ UNCHANGED <<monitors, span_res, sz_in, fnVars, fitVars, sessVars>>

\* if pick_size { if let Some(selected) = pick_internal_size(..)? { internal = selected } }
LaunchPickSize ==
    /\ phase = "launch_pick"
    /\ \E picked \in pick_internal_size(sz_in.span[1], sz_in.span[2]) :
         /\ sz_out' = [sz_out EXCEPT
                          !.picked = picked,
                          !.internal = IF picked.tag = "Ok" /\ IsSome(picked.val)
                                       THEN Unwrap(picked.val) ELSE @]
         /\ phase' = IF picked.tag = "Err" THEN "launch_failed" ELSE "launch_done"
    /\ UNCHANGED <<monitors, span_res, sz_in, fnVars, fitVars, sessVars>>

NextLaunch == LaunchDerive \/ LaunchPickSize

SpecLaunch == InitLaunch /\ [][NextLaunch]_vars

(***************************************************************************)
(* SpecClients: the window selection over bounded client lists             *)
(***************************************************************************)
MaxClients == 3

ClientPids == {100, 200}
ClientAddresses == {None, Some("0x1")}
ClientSizes == {None, Some(<<0, 2>>), Some(<<1, 1>>), Some(<<1, 2>>), Some(<<2, 2>>)}
ClientDomain ==
    {Client(p, a, sz) : p \in ClientPids, a \in ClientAddresses, sz \in ClientSizes}
ClientLists == UNION {[1..n -> ClientDomain] : n \in 0..MaxClients}

InitClients ==
    /\ cl_in \in [clients : ClientLists, pid : {100}]
    /\ cl_out = Pending
    /\ SpanIdle
    /\ SizeIdleInit
    /\ phase = "clients_input"
    /\ ArgsIdle /\ ConfigIdle /\ WaitIdle
    /\ win = NoWindow
    /\ FitIdle
    /\ SessIdle

SelectPrimary ==
    /\ phase = "clients_input"
    /\ cl_out' = [primary |-> primary_client_for_pid(cl_in.clients, cl_in.pid),
                  selector |-> get_primary_window_selector(cl_in.clients, cl_in.pid)]
    /\ phase' = "clients_done"
    /\ UNCHANGED <<monitors, span_res, sz_in, sz_out, cl_in, args_in, args_out, conf_in,
                   conf_out, wt, fitVars, sessVars>>

NextClients == SelectPrimary

SpecClients == InitClients /\ [][NextClients]_vars

(***************************************************************************)
(* SpecArgs: build_gamescope_args_with_internal over bounded flag vectors  *)
(***************************************************************************)
MaxArgs == 3

\* Short and long flags alone, with "=value" and with attached text, the
\* separator, a command word and a number.
ArgTokens ==
    {Arg("-W", ""), Arg("-W", "="), Arg("-W", "x"), Arg("-H", ""),
     Arg("-w", "="), Arg("-h", ""), Arg("-h", "x"),
     Arg("--output-height", "="), Arg("--output-height", "x"), Arg("--nested-width", ""),
     Arg("--", ""), Arg("game", ""), Str(7)}
ArgVectors == UNION {[1..n -> ArgTokens] : n \in 0..MaxArgs}

\* the span and the internal size handed to the builder
ArgsSpan == <<5, 4>>
ArgsInternal == <<4, 2>>

InitArgs ==
    /\ args_in \in ArgVectors
    /\ args_out = <<>>
    /\ SpanIdle
    /\ SizeIdleInit
    /\ phase = "args_input"
    /\ ClientsIdle /\ ConfigIdle /\ WaitIdle
    /\ win = NoWindow
    /\ FitIdle
    /\ SessIdle

BuildArgs ==
    /\ phase = "args_input"
    /\ args_out' = build_gamescope_args_with_internal(args_in, ArgsSpan[1], ArgsSpan[2],
                                                       ArgsInternal[1], ArgsInternal[2])
    /\ phase' = "args_done"
    /\ UNCHANGED <<monitors, span_res, sz_in, sz_out, cl_in, cl_out, args_in, conf_in,
                   conf_out, wt, fitVars, sessVars>>

NextArgs == BuildArgs

SpecArgs == InitArgs /\ [][NextArgs]_vars

(***************************************************************************)
(* SpecConfig: apply_config over bounded CLI values and configurations     *)
(***************************************************************************)
CliArgVectors ==
    {<<>>, <<Arg("-r", ""), Str(120)>>, <<Arg("-r", ""), Arg("--", ""), Arg("game", "")>>}
ConfigArgVectors ==
    {None, Some(<<>>), Some(<<Arg("-r", ""), Str(60)>>),
     Some(<<Arg("--", ""), Arg("other", "")>>)}
DefaultCommands ==
    {None, Some(<<>>), Some(<<Arg("steam", ""), Arg("-applaunch", ""), Str(620)>>)}
\* what f32::from_str accepts on the command line: NaN, 2.0, 0.05, 0.1, 0.5, 1.0, inf
CliScales ==
    {None} \cup {Some(v) : v \in {F32NaN, <<2, 1>>, <<1, 20>>, <<1, 10>>, <<1, 2>>, <<1, 1>>,
                                    <<1, 0>>}}
\* floats of the TOML file: 0.9, nan, -1.0
ConfigScales == {None, Some(<<9, 10>>), Some(F32NaN), Some(<<-1, 1>>)}
OptFlags == {None, Some(FALSE), Some(TRUE)}

ConfigInputs ==
    {[cli_args |-> ca, cli_no_pin |-> cf, cli_pick |-> cf, cli_hide_waybar |-> cf,
      cli_pick_size |-> cf, cli_render_scale |-> cs, cli_virtual_width |-> cv,
      cli_virtual_height |-> None, cli_timeout |-> ct,
      config |-> [gamescope_args |-> ga, default_command |-> dc, no_pin |-> of, pick |-> of,
                  hide_waybar |-> of, pick_size |-> of, render_scale |-> os,
                  virtual_width |-> ov, virtual_height |-> Some(720),
                  output_width |-> Some(3840), output_height |-> None,
                  startup_timeout_secs |-> ot]] :
        ca \in CliArgVectors, cf \in BOOLEAN, cs \in CliScales, cv \in {None, Some(1600)},
        ct \in {10, 25}, ga \in ConfigArgVectors, dc \in DefaultCommands, of \in OptFlags,
        os \in ConfigScales, ov \in {None, Some(1280)}, ot \in {None, Some(15)}}

InitConfig ==
    /\ conf_in \in ConfigInputs
    /\ conf_out = Pending
    /\ SpanIdle
    /\ SizeIdleInit
    /\ phase = "config_input"
    /\ ClientsIdle /\ ArgsIdle /\ WaitIdle
    /\ win = NoWindow
    /\ FitIdle
    /\ SessIdle

ApplyConfig ==
    /\ phase = "config_input"
    /\ conf_out' = apply_config(conf_in.cli_args, conf_in.cli_no_pin, conf_in.cli_pick,
                                conf_in.cli_hide_waybar, conf_in.cli_pick_size,
                                conf_in.cli_render_scale, conf_in.cli_virtual_width,
                                conf_in.cli_virtual_height, conf_in.cli_timeout,
                                conf_in.config)
    /\ phase' = "config_done"
    /\ UNCHANGED <<monitors, span_res, sz_in, sz_out, cl_in, cl_out, args_in, args_out,
                   conf_in, wt, fitVars, sessVars>>

NextConfig == ApplyConfig

SpecConfig == InitConfig /\ [][NextConfig]_vars

(***************************************************************************)
(* hyprland.rs: wait_for_client_pid                                        *)
(*                                                                         *)
(* Time is counted in units of the 250 ms sleep.  The clock is read when   *)
(* the loop condition is evaluated; a `hyprctl clients -j` query takes     *)
(* some time or next to none, a sleep takes one unit or more.              *)
(***************************************************************************)
\* What one poll of the loop body decides: the `?` on the query and on the
\* parse return the error, a client with the pid returns Ok(()), anything
\* else sleeps and polls again.
wait_poll_outcome_RetryOnError(reply, pid) ==
    IF reply.tag = "Err" THEN "miss"
    ELSE IF \E i \in DOMAIN reply.val : reply.val[i].pid = pid THEN "found"
    ELSE "miss"

wait_poll_outcome(reply, pid) ==
    IF reply.tag = "Err" THEN "err"
    ELSE IF \E i \in DOMAIN reply.val : reply.val[i].pid = pid THEN "found"
    ELSE "miss"

\* let deadline = Instant::now() + Duration::from_secs(timeout_secs)
wait_begin(pid, timeout) ==
    [pc |-> "check", pid |-> pid, deadline |-> timeout, now |-> 0, polls |-> 0,
     last |-> [tag |-> "none"], hit |-> FALSE, res |-> "none"]

MaxTimeout == 3
MaxQueryTime == 1
MaxSleepTime == 2

WaitPids == {100}
WaitClientLists ==
    UNION {[1..n -> {Client(p, None, None) : p \in ClientPids}] : n \in 0..2}
WaitReplies ==
    {Err("hyprctl clients failed"), Err("Failed to parse hyprctl clients output")}
        \cup {Ok(cs) : cs \in WaitClientLists}

InitWait ==
    /\ SpanIdle
    /\ SizeIdleInit
    /\ phase = "wait"
    /\ ClientsIdle /\ ArgsIdle /\ ConfigIdle
    /\ wt \in {wait_begin(pid, t) : pid \in WaitPids, t \in 0..MaxTimeout}
    /\ win = NoWindow
    /\ FitIdle
    /\ SessIdle

WaitUnchanged ==
    UNCHANGED <<monitors, span_res, sz_in, sz_out, phase, cl_in, cl_out, args_in, args_out,
                conf_in, conf_out, fitVars, sessVars>>

\* while Instant::now() < deadline; after the loop the timeout error
WaitCheck ==
    /\ phase = "wait"
    /\ wt.pc = "check"
    /\ wt' = IF wt.now < wt.deadline
             THEN [wt EXCEPT !.pc = "poll"]
             ELSE [wt EXCEPT !.pc = "done", !.res = "timeout"]
    /\ WaitUnchanged

\* execute_hyprctl_output(["clients", "-j"])?, from_str(..)?, any(|c| c.pid == pid)
WaitPoll ==
    /\ phase = "wait"
    /\ wt.pc = "poll"
    /\ \E reply \in WaitReplies, took \in 0..MaxQueryTime :
         LET outcome == wait_poll_outcome(reply, wt.pid)
             contained == reply.tag = "Ok"
                            /\ \E i \in DOMAIN reply.val : reply.val[i].pid = wt.pid
         IN wt' = [wt EXCEPT !.polls = @ + 1,
                             !.last = reply,
                             !.now = @ + took,
                             !.hit = @ \/ contained,
                             !.pc = IF outcome = "miss" THEN "sleep" ELSE "done",
                             !.res = CASE outcome = "err" -> "err"
                                       [] outcome = "found" -> "ok"
                                       [] OTHER -> @]
    /\ WaitUnchanged

\* std::thread::sleep(Duration::from_millis(250))
WaitSleep ==
    /\ phase = "wait"
    /\ wt.pc = "sleep"
    /\ \E slept \in 1..MaxSleepTime : wt' = [wt EXCEPT !.now = @ + slept, !.pc = "check"]
    /\ WaitUnchanged

NextWait == WaitCheck \/ WaitPoll \/ WaitSleep

SpecWait == InitWait /\ [][NextWait]_vars

(***************************************************************************)
(* hyprland.rs: fit_window_to_span                                         *)
(*                                                                         *)
(* Every hyprctl invocation is one step.  A dispatch may fail (hyprctl     *)
(* exits non-zero); get_client_geometry answers Err, Ok(None) (no client   *)
(* of the pid, or one without at/size) or Ok(Some(<<x, y, w, h>>)).        *)
(***************************************************************************)
MaxAttempts == 4

fit_pos_ok(g, t) == Abs(g[1] - t[1]) <= 1 /\ Abs(g[2] - t[2]) <= 1

fit_size_ok_WidthOnly(g, t) == Abs(g[3] - t[3]) <= 1

fit_size_ok(g, t) == Abs(g[3] - t[3]) <= 1 /\ Abs(g[4] - t[4]) <= 1

fit_next_req_NoAccumulate(req, t, g) == <<Max(t[3], 2), Max(t[4], 2)>>

fit_next_req_NoFloor(req, t, g) == <<req[1] + (t[3] - g[3]), req[2] + (t[4] - g[4])>>

\* req_w = (req_w + (target_w - w)).max(2); req_h likewise
fit_next_req(req, t, g) ==
    <<Max(req[1] + (t[3] - g[3]), 2), Max(req[2] + (t[4] - g[4]), 2)>>

\* What the code after the loop returns, given the final geometry reply.
fit_after_loop_ErrOnMismatch(reply) == "err"

fit_after_loop_ErrOnMissing(reply) ==
    IF reply.tag = "Err" \/ reply.val = None THEN "err" ELSE "warned"

fit_after_loop(reply) == IF reply.tag = "Err" THEN "err" ELSE "warned"

\* The window's answer to "resize to req": the requested size plus win.off at
\* the target position, or one of win.sizes at a position shifted by one of the
\* <<dx, dy>> of win.shifts.
ConstOffsetGeometry == <<fit_tgt[1], fit_tgt[2], fit_req[1] + win.off[1], fit_req[2] + win.off[2]>>

WindowGeometries ==
    {ConstOffsetGeometry}
        \cup {<<fit_tgt[1] + s[1], fit_tgt[2] + s[2], sz[1], sz[2]>> :
                s \in win.shifts, sz \in win.sizes}

\* get_client_geometry: Err, Ok(None) when the window may be missing from the
\* client list (win.vanish), or Ok(Some(geometry))
GeometryReplies ==
    {Err("hyprctl clients failed")}
        \cup (IF win.vanish THEN {Ok(None)} ELSE {})
        \cup {Ok(Some(g)) : g \in WindowGeometries}

fit_begin(caller, tgt) ==
    /\ fit_pc' = "move"
    /\ fit_caller' = caller
    /\ fit_tgt' = tgt
    /\ fit_attempt' = 1
    /\ fit_req' = <<tgt[3], tgt[4]>>
    /\ fit_obs' = [tag |-> "none"]
    /\ fit_res' = "none"
    /\ fit_cmds' = NoCmds
    /\ fit_const' = TRUE

move_params_Compensated(t, obs) ==
    IF obs.tag = "Ok" /\ IsSome(obs.val)
    THEN <<t[1] + (t[1] - Unwrap(obs.val)[1]), t[2] + (t[2] - Unwrap(obs.val)[2])>>
    ELSE <<t[1], t[2]>>

\* format!("exact {} {}", target_x, target_y)
move_params(t, obs) == <<t[1], t[2]>>

\* dispatch movewindowpixel "exact target_x target_y,window"
FitMove ==
    /\ fit_pc = "move"
    /\ fit_cmds' = [fit_cmds EXCEPT !.move = @ + 1,
                                    !.move_to = @ \cup {move_params(fit_tgt, fit_obs)}]
    /\ \E ok \in BOOLEAN :
         IF ok
         THEN fit_pc' = "resize" /\ UNCHANGED <<fit_res, fit_const>>
         ELSE fit_pc' = "done" /\ fit_res' = "err" /\ fit_const' = FALSE
    /\ UNCHANGED <<win, fit_caller, fit_tgt, fit_attempt, fit_req, fit_obs>>

\* dispatch resizewindowpixel "exact req_w req_h,window"
FitResize ==
    /\ fit_pc = "resize"
    /\ fit_cmds' = [fit_cmds EXCEPT !.resize = @ + 1]
    /\ \E ok \in BOOLEAN :
         IF ok
         THEN fit_pc' = "query" /\ UNCHANGED <<fit_res, fit_const>>
         ELSE fit_pc' = "done" /\ fit_res' = "err" /\ fit_const' = FALSE
    /\ UNCHANGED <<win, fit_caller, fit_tgt, fit_attempt, fit_req, fit_obs>>

\* The next iteration of `for attempt in 1..=4`, or the code after the loop.
fit_continue ==
    /\ fit_attempt' = fit_attempt + 1
    /\ fit_pc' = IF fit_attempt < MaxAttempts THEN "move" ELSE "final"
    /\ fit_res' = fit_res

\* sleep 80 ms, get_client_geometry, compare, adjust the request
FitQuery ==
    /\ fit_pc = "query"
    /\ fit_cmds' = [fit_cmds EXCEPT !.query = @ + 1]
    /\ \E reply \in GeometryReplies :
         /\ fit_obs' = reply
         /\ fit_const' = (fit_const /\ reply = Ok(Some(ConstOffsetGeometry)))
         /\ IF reply.tag = "Err"
            THEN fit_pc' = "done" /\ fit_res' = "err" /\ UNCHANGED <<fit_attempt, fit_req>>
            ELSE IF reply.val = None
            THEN fit_continue /\ UNCHANGED fit_req
            ELSE LET g == Unwrap(reply.val)
                 IN IF fit_pos_ok(g, fit_tgt) /\ fit_size_ok(g, fit_tgt)
                    THEN fit_pc' = "done" /\ fit_res' = "fit"
                         /\ UNCHANGED <<fit_attempt, fit_req>>
                    ELSE fit_continue /\ fit_req' = fit_next_req(fit_req, fit_tgt, g)
    /\ UNCHANGED <<win, fit_caller, fit_tgt>>

\* after the loop: one more get_client_geometry, the warning, Ok(())
FitFinal ==
    /\ fit_pc = "final"
    /\ fit_cmds' = [fit_cmds EXCEPT !.query = @ + 1]
    /\ \E reply \in GeometryReplies :
         /\ fit_obs' = reply
         /\ fit_res' = fit_after_loop(reply)
         /\ fit_const' = (fit_const /\ reply.tag = "Ok")
    /\ fit_pc' = "done"
    /\ UNCHANGED <<win, fit_caller, fit_tgt, fit_attempt, fit_req>>

FitStep == FitMove \/ FitResize \/ FitQuery \/ FitFinal

(***************************************************************************)
(* SpecFit: fit_window_to_span called on bounded targets against bounded   *)
(* windows                                                                 *)
(***************************************************************************)
MaxTargetDim == 4
MaxOffset == 4

TargetDims == 2..MaxTargetDim
Offsets == (-2)..MaxOffset
FitTargets == {<<-2, 0, w, h>> : w \in TargetDims, h \in TargetDims}
\* where a window that ignores the request may sit, relative to the target
FitShifts == {<<0, 0>>, <<2, 0>>, <<-1, 0>>, <<0, 1>>, <<0, -2>>}
FitWindows ==
    [off : Offsets \X Offsets, sizes : {{<<3, 3>>}}, shifts : {FitShifts}, vanish : {TRUE}]

InitFit ==
    /\ SpanIdle
    /\ SizeIdleInit
    /\ phase = "fit"
    /\ ClientsIdle /\ ArgsIdle /\ ConfigIdle /\ WaitIdle
    /\ win \in FitWindows
    /\ FitIdle
    /\ SessIdle

FitDirectCall ==
    /\ phase = "fit"
    /\ fit_pc = "idle"
    /\ \E tgt \in FitTargets : fit_begin("direct", tgt)
    /\ UNCHANGED <<pureVars, win, sessVars>>

FitDirectStep ==
    /\ fit_caller = "direct"
    /\ FitStep
    /\ UNCHANGED <<pureVars, sessVars>>

NextFit == FitDirectCall \/ FitDirectStep

SpecFit == InitFit /\ [][NextFit]_vars

(***************************************************************************)
(* gamescope.rs: the session.  Every external command (hyprctl, pgrep,     *)
(* pkill, kill, waybar, a file operation) is one step and may fail.        *)
(***************************************************************************)
MaxSignals == 2
MaxTicks == 3

Cli == 0
Handlers == 1..MaxSignals
Executors == {Cli} \cup Handlers

\* The threads of the gamescope_up process run only while it lives; the
\* standalone gamescope_down command is a process of its own.
Alive(e) == e = Cli \/ proc = "running"

\* child.id() of the one gamescope process of the session
ChildPid == [pid |-> "gamescope"]

\* the pid an earlier session, still running, has recorded in the state file
EarlierPid == [pid |-> "earlier gamescope"]

GamescopeState_NoHotkey(pid, sp, args, stopped, hotkey) ==
    [kind |-> "state", gamescope_pid |-> pid, span |-> sp, gamescope_args |-> args,
     waybar_was_stopped |-> stopped, exit_hotkey |-> FALSE]

GamescopeState(pid, sp, args, stopped, hotkey) ==
    [kind |-> "state", gamescope_pid |-> pid, span |-> sp, gamescope_args |-> args,
     waybar_was_stopped |-> stopped, exit_hotkey |-> hotkey]

\* read_to_string succeeds and serde_json::from_str accepts the content
FileParses_Always(f) == TRUE

FileParses(f) == f.kind = "state"

\* The effects after a waybar-restart or unbind command that ran (ok) or failed.
CommandRan(ok) == IF ok THEN effects ELSE [effects EXCEPT !.cmd_failed = TRUE]

\* hyprctl keyword unbind "SUPER SHIFT, F12": removes every bind of the combination
Unbound(ok) == IF ok THEN {} ELSE binds

(***************************************************************************)
(* gamescope_down, run by executor e                                       *)
(***************************************************************************)
down_after_remove_HotkeyFirst(st) ==
    IF st.exit_hotkey THEN "unbind"
    ELSE IF st.waybar_was_stopped THEN "wb_check"
    ELSE "ret_ok"

\* Where gamescope_down goes after the state file is removed / waybar handled.
down_after_remove(st) ==
    IF st.waybar_was_stopped THEN "wb_check"
    ELSE IF st.exit_hotkey THEN "unbind"
    ELSE "ret_ok"

down_after_waybar_SkipUnbind(st) == "ret_ok"

down_after_waybar(st) == IF st.exit_hotkey THEN "unbind" ELSE "ret_ok"

\* load_gamescope_state()?: read_to_string and serde_json::from_str
DownLoad(e) ==
    /\ Alive(e)
    /\ dn[e].pc = "load"
    /\ IF FileParses(state_file)
       THEN dn' = [dn EXCEPT ![e] = [@ EXCEPT !.pc = "kill", !.st = state_file,
                                                !.start = state_file]]
       ELSE dn' = [dn EXCEPT ![e] = [@ EXCEPT !.pc = "ret_err", !.start = state_file,
                                                !.end = state_file]]
    /\ UNCHANGED <<pureVars, fitVars, upVars, shutting_down, envVars>>

\* kill <pid>: the outcome is only logged
DownKill(e) ==
    /\ Alive(e)
    /\ dn[e].pc = "kill"
    /\ dn' = [dn EXCEPT ![e] = [@ EXCEPT !.pc = "remove", !.did = @ \cup {"kill"}]]
    /\ \E delivered \in BOOLEAN :
         LET pid == dn[e].st.gamescope_pid IN
         /\ child' = IF delivered /\ pid = ChildPid /\ child = "running"
                     THEN "exited" ELSE child
         /\ effects' = IF delivered /\ pid = EarlierPid /\ effects.earlier = "running"
                       THEN [effects EXCEPT !.earlier = "exited"] ELSE effects
    /\ UNCHANGED <<pureVars, fitVars, upVars, shutting_down, state_file, waybar, binds>>

\* std::fs::remove_file(&state_file_path)?
DownRemove(e) ==
    /\ Alive(e)
    /\ dn[e].pc = "remove"
    /\ IF state_file = FileAbsent
       THEN /\ dn' = [dn EXCEPT ![e] = [@ EXCEPT !.pc = "ret_err", !.did = @ \cup {"remove"},
                                                  !.end = FileAbsent]]
            /\ UNCHANGED state_file
       ELSE /\ state_file' = FileAbsent
            /\ dn' = [dn EXCEPT ![e] = [@ EXCEPT !.pc = down_after_remove(dn[e].st),
                                                  !.did = @ \cup {"remove"},
                                                  !.end = FileAbsent]]
    /\ UNCHANGED <<pureVars, fitVars, upVars, shutting_down, child, waybar, binds, effects>>

\* maybe_start_waybar(false)?: pgrep -x waybar
DownWaybarCheck(e) ==
    /\ Alive(e)
    /\ dn[e].pc = "wb_check"
    /\ \E ran \in BOOLEAN :
         /\ dn' = [dn EXCEPT ![e] = [@ EXCEPT
                      !.pc = IF ~ran THEN "ret_err"
                             ELSE IF waybar = "running" THEN down_after_waybar(dn[e].st)
                             ELSE "wb_spawn",
                      !.did = @ \cup {"waybar"}]]
         /\ effects' = CommandRan(ran)
    /\ UNCHANGED <<pureVars, fitVars, upVars, shutting_down, state_file, child, waybar, binds>>

\* maybe_start_waybar(false)?: Command::new("waybar").spawn()
DownWaybarSpawn(e) ==
    /\ Alive(e)
    /\ dn[e].pc = "wb_spawn"
    /\ \E ok \in BOOLEAN :
         IF ok
         THEN /\ waybar' = "running"
              /\ effects' = [effects EXCEPT !.waybar_starts = @ + 1]
              /\ dn' = [dn EXCEPT ![e] = [@ EXCEPT !.pc = down_after_waybar(dn[e].st)]]
         ELSE /\ dn' = [dn EXCEPT ![e] = [@ EXCEPT !.pc = "ret_err"]]
              /\ effects' = CommandRan(FALSE)
              /\ UNCHANGED waybar
    /\ UNCHANGED <<pureVars, fitVars, upVars, shutting_down, state_file, child, binds>>

\* unregister_exit_hotkey(hotkey, false); Ok(())
DownUnbind(e) ==
    /\ Alive(e)
    /\ dn[e].pc = "unbind"
    /\ dn' = [dn EXCEPT ![e] = [@ EXCEPT !.pc = "ret_ok", !.did = @ \cup {"unbind"}]]
    /\ \E ok \in BOOLEAN :
         /\ binds' = Unbound(ok)
         /\ effects' = [CommandRan(ok) EXCEPT !.unbinds = @ + 1]
    /\ UNCHANGED <<pureVars, fitVars, upVars, shutting_down, state_file, child, waybar>>

DownStep(e) ==
    \/ DownLoad(e)
    \/ DownKill(e)
    \/ DownRemove(e)
    \/ DownWaybarCheck(e)
    \/ DownWaybarSpawn(e)
    \/ DownUnbind(e)

(***************************************************************************)
(* The interrupt handler installed by gamescope_up (ctrlc::set_handler)    *)
(***************************************************************************)
atomic_swap_NoStore(cur, new) == [old |-> cur, now |-> cur]

\* AtomicBool::swap(new, SeqCst): the previous value and the value stored
atomic_swap(cur, new) == [old |-> cur, now |-> new]

handler_exits_OnlyOnOk(pc) == pc = "ret_ok"

\* `if let Err(e) = gamescope_down() { eprintln!(..) }; std::process::exit(130)`:
\* the handler goes on to exit whatever gamescope_down returned
handler_exits(pc) == pc \in {"ret_ok", "ret_err"}

\* The h-th signal arrives: shutting_down.swap(true); no-op when it was already set
HandlerSwap(h) ==
    /\ proc = "running"
    /\ handler_installed
    /\ dn[h].pc = "idle"
    /\ h = 1 \/ dn[h - 1].pc # "idle"
    /\ LET sw == atomic_swap(shutting_down, TRUE)
       IN /\ shutting_down' = sw.now
          /\ dn' = [dn EXCEPT ![h] = [@ EXCEPT !.pc = IF sw.old THEN "noop" ELSE "load"]]
    /\ UNCHANGED <<pureVars, fitVars, upVars, envVars>>

\* gamescope_down returned (Ok or Err): std::process::exit(130)
HandlerExit(h) ==
    /\ proc = "running"
    /\ handler_exits(dn[h].pc)
    /\ proc' = "exited"
    /\ dn' = [dn EXCEPT ![h] = [@ EXCEPT !.pc = "exit130",
                                           !.did = @ \cup {dn[h].pc}]]
    /\ UNCHANGED <<pureVars, fitVars, cfg, up_pc, waybar_was_stopped, exit_hotkey, span, window,
                   reflow_tick, up_res, up_fail, up_hist, handler_installed,
                   shutting_down, envVars>>

\* The gamescope process ends by itself.
ChildExits ==
    /\ child = "running"
    /\ child' = "exited"
    /\ UNCHANGED <<pureVars, fitVars, upVars, shutting_down, dn, state_file, waybar,
                   binds, effects>>

(***************************************************************************)
(* gamescope_up                                                            *)
(***************************************************************************)
\* `if result.is_err() && waybar_was_stopped` / `&& let Some(hotkey) = exit_hotkey`:
\* where an error of the closure continues.
rollback_entry_NoWaybar(stopped, hotkey) == IF hotkey THEN "rb_unbind" ELSE "ret_err"

rollback_entry(stopped, hotkey) ==
    IF stopped THEN "rb_wb_check"
    ELSE IF hotkey THEN "rb_unbind"
    ELSE "ret_err"

rollback_after_waybar(hotkey) == IF hotkey THEN "rb_unbind" ELSE "ret_err"

exit_after_try_wait_AlwaysWaybar(stopped, hotkey) == "exit_wb_check"

\* The child-exit branch of the loop after try_wait / after maybe_start_waybar.
exit_after_try_wait(stopped, hotkey) ==
    IF stopped THEN "exit_wb_check"
    ELSE IF hotkey THEN "exit_unbind"
    ELSE "exit_remove"

exit_after_waybar(hotkey) == IF hotkey THEN "exit_unbind" ELSE "exit_remove"

\* An error leaves the closure with `?`.
Fail(step) ==
    /\ up_fail' = step
    /\ up_pc' = rollback_entry(waybar_was_stopped, exit_hotkey)

\* The arguments gamescope is started with: the output size from the span, the
\* internal size from the output size (no overrides, scale 1), injected into the
\* configured flag vector.
final_args ==
    LET output == derive_output_size(span[3], span[4], None, None)
        internal == derive_internal_size(output[1], output[2], <<1, 1>>, None, None)
    IN build_gamescope_args_with_internal(cfg.gamescope_args, output[1], output[2],
                                          internal[1], internal[2])

\* After the initial fit: `if !no_pin { dispatch pin }`, then the hotkey.
activation_after_fit_SkipPin(no_pin) == "hk_check"

activation_after_fit(no_pin) == IF no_pin THEN "hk_check" ELSE "pin"

\* child.try_wait() answers Ok(Some(status)) once the child has exited
try_wait_exited_Never(c) == FALSE

try_wait_exited(c) == c = "exited"

\* reflow_tick.is_multiple_of(2)
reflow_due_EveryTick(tick) == TRUE

reflow_due(tick) == tick % 2 = 0

\* `let _ = fit_window_to_span(..)`: the reflow goes on whatever the fit returned
reflow_fit_outcome_Propagate(res) == IF res = "err" THEN "fail" ELSE "continue"

reflow_fit_outcome(res) == "continue"

Started(step) == up_hist' = [up_hist EXCEPT !.trace = Append(@, step)]

fit_reset ==
    /\ fit_pc' = "idle"
    /\ fit_caller' = "none"
    /\ fit_tgt' = <<0, 0, 0, 0>>
    /\ fit_attempt' = 1
    /\ fit_req' = <<0, 0>>
    /\ fit_obs' = [tag |-> "none"]
    /\ fit_res' = "none"
    /\ fit_cmds' = NoCmds
    /\ fit_const' = TRUE

monitor_span_EmptyIsUnitSpan(ran, ms) ==
    IF ~ran \/ ms = <<>> THEN Ok(<<0, 0, 2, 2>>) ELSE compute_monitor_span(ms)

\* get_monitors(verbose)?, an Err when hyprctl fails, its output does not parse
\* or the list is empty; then compute_monitor_span(&monitors)?
monitor_span(ran, ms) ==
    IF ~ran \/ ms = <<>> THEN Err("No monitors detected") ELSE compute_monitor_span(ms)

\* get_monitors(verbose)?; compute_monitor_span(&monitors)?
UpGetMonitors ==
    /\ proc = "running" /\ up_pc = "get_monitors"
    /\ \E ran \in BOOLEAN :
         IF monitor_span(ran, monitors).tag = "Ok"
         THEN /\ span' = monitor_span(ran, monitors).val
              /\ up_pc' = "pickers"
              /\ UNCHANGED up_fail
         ELSE Fail("monitors") /\ UNCHANGED span
    /\ UNCHANGED <<pureVars, fitVars, cfg, proc, waybar_was_stopped, exit_hotkey, window,
                   reflow_tick, up_res, up_hist, handler_installed, shutting_down, dn, envVars>>

\* ensure_game_command(..)?, the size derivation, pick_internal_size(..)?
UpPickers ==
    /\ proc = "running" /\ up_pc = "pickers"
    /\ \E ok \in BOOLEAN :
         IF ok
         THEN /\ up_pc' = IF cfg.hide_waybar THEN "stop_wb_check" ELSE "spawn"
              /\ UNCHANGED up_fail
         ELSE Fail("picker")
    /\ UNCHANGED <<pureVars, fitVars, cfg, proc, waybar_was_stopped, exit_hotkey, span, window,
                   reflow_tick, up_res, up_hist, handler_installed, shutting_down, dn, envVars>>

\* maybe_stop_waybar: pgrep -x waybar
UpStopWaybarCheck ==
    /\ proc = "running" /\ up_pc = "stop_wb_check"
    /\ \E ran \in BOOLEAN :
         IF ~ran THEN Fail("stop_waybar")
         ELSE /\ up_pc' = IF waybar = "running" THEN "stop_wb_kill" ELSE "spawn"
              /\ UNCHANGED up_fail
    /\ UNCHANGED <<pureVars, fitVars, cfg, proc, waybar_was_stopped, exit_hotkey, span, window,
                   reflow_tick, up_res, up_hist, handler_installed, shutting_down, dn, envVars>>

\* maybe_stop_waybar: pkill -x waybar; waybar_was_stopped = true
UpStopWaybarKill ==
    /\ proc = "running" /\ up_pc = "stop_wb_kill"
    /\ \E ok \in BOOLEAN :
         IF ok
         THEN /\ waybar' = "stopped"
              /\ waybar_was_stopped' = TRUE
              /\ up_pc' = "spawn"
              /\ UNCHANGED up_fail
         ELSE Fail("stop_waybar") /\ UNCHANGED <<waybar, waybar_was_stopped>>
    /\ UNCHANGED <<pureVars, fitVars, cfg, proc, exit_hotkey, span, window, reflow_tick, up_res,
                   up_hist, handler_installed, shutting_down, dn, state_file, child, binds,
                   effects>>

\* Command::new("gamescope").spawn()?
UpSpawn ==
    /\ proc = "running" /\ up_pc = "spawn"
    /\ \E ok \in BOOLEAN :
         IF ok
         THEN child' = "running" /\ up_pc' = "wait_client" /\ UNCHANGED up_fail
         ELSE Fail("spawn") /\ UNCHANGED child
    /\ UNCHANGED <<pureVars, fitVars, cfg, proc, waybar_was_stopped, exit_hotkey, span, window,
                   reflow_tick, up_res, up_hist, handler_installed, shutting_down, dn,
                   state_file, waybar, binds, effects>>

\* wait_for_client_pid(pid, timeout)?: the window appears, the deadline passes,
\* or a client query fails
UpWaitClient ==
    /\ proc = "running" /\ up_pc = "wait_client"
    /\ \E outcome \in {"found", "timeout", "err"} :
         /\ outcome = "found" => child = "running"
         /\ IF outcome = "found"
            THEN up_pc' = "setfloating" /\ UNCHANGED up_fail
            ELSE Fail(IF outcome = "timeout" THEN "timeout" ELSE "wait_client")
    /\ UNCHANGED <<pureVars, fitVars, cfg, proc, waybar_was_stopped, exit_hotkey, span, window,
                   reflow_tick, up_res, up_hist, handler_installed, shutting_down, dn, envVars>>

\* get_primary_window_selector (a failure falls back to pid:<pid>),
\* dispatch setfloating?, then fit_window_to_span is entered
UpSetFloating ==
    /\ proc = "running" /\ up_pc = "setfloating"
    /\ window' = LaunchSelector
    /\ \E ok \in BOOLEAN :
         IF ok
         THEN /\ up_pc' = "fit_initial"
              /\ fit_begin("initial", span)
              /\ up_hist' = [up_hist EXCEPT !.trace = @ \o <<"setfloating", "fit">>]
              /\ UNCHANGED up_fail
         ELSE /\ Fail("setfloating")
              /\ Started("setfloating")
              /\ UNCHANGED <<fit_pc, fit_caller, fit_tgt, fit_attempt, fit_req, fit_obs,
                             fit_res, fit_cmds, fit_const>>
    /\ UNCHANGED <<pureVars, win, cfg, proc, waybar_was_stopped, exit_hotkey, span,
                   reflow_tick, up_res, handler_installed, shutting_down, dn, envVars>>

\* one command of fit_window_to_span, called by gamescope_up
UpFitStep ==
    /\ proc = "running" /\ up_pc \in {"fit_initial", "fit_reflow"}
    /\ FitStep
    /\ UNCHANGED <<pureVars, sessVars>>

\* fit_window_to_span(..)? returned to the setup code
UpInitialFitReturn ==
    /\ proc = "running" /\ up_pc = "fit_initial" /\ fit_pc = "done"
    /\ up_hist' = [up_hist EXCEPT !.init_fit = fit_res]
    /\ IF fit_res = "err"
       THEN Fail("fit")
       ELSE /\ up_pc' = activation_after_fit(cfg.no_pin)
            /\ UNCHANGED up_fail
    /\ fit_reset
    /\ UNCHANGED <<pureVars, win, cfg, proc, waybar_was_stopped, exit_hotkey, span, window,
                   reflow_tick, up_res, handler_installed, shutting_down, dn, envVars>>

\* dispatch pin?
UpPin ==
    /\ proc = "running" /\ up_pc = "pin"
    /\ \E ok \in BOOLEAN :
         IF ok THEN up_pc' = "hk_check" /\ UNCHANGED up_fail ELSE Fail("pin")
    /\ Started("pin")
    /\ UNCHANGED <<pureVars, fitVars, cfg, proc, waybar_was_stopped, exit_hotkey, span, window,
                   reflow_tick, up_res, handler_installed, shutting_down, dn, envVars>>

\* bind_exists: some line of the `hyprctl binds` output, whitespace removed and
\* lowercased, contains "supershift,f12"
bind_exists(table) == \E b \in table : b \in {"user", "hyprfinity"}

hotkey_after_check_ErrFails(ran, exists) ==
    IF ~ran THEN "ret_err"
    ELSE IF exists THEN "save_create"
    ELSE "hk_bind"

\* register_exit_hotkey after `bind_exists(mods, key, verbose)?`: Err (printed by
\* gamescope_up, which goes on) and Ok(None) both continue with the state save
hotkey_after_check(ran, exists) ==
    IF ran /\ ~exists THEN "hk_bind" ELSE "save_create"

UpHotkeyCheck ==
    /\ proc = "running" /\ up_pc = "hk_check"
    /\ \E ran \in BOOLEAN : up_pc' = hotkey_after_check(ran, bind_exists(binds))
    /\ Started("hotkey")
    /\ UNCHANGED <<pureVars, fitVars, cfg, proc, waybar_was_stopped, exit_hotkey, span, window,
                   reflow_tick, up_res, up_fail, handler_installed, shutting_down,
                   dn, envVars>>

\* register_exit_hotkey: hyprctl keyword bind; exit_hotkey = Some(..) on success
UpHotkeyBind ==
    /\ proc = "running" /\ up_pc = "hk_bind"
    /\ \E ok \in BOOLEAN :
         IF ok
         THEN binds' = binds \cup {"hyprfinity"} /\ exit_hotkey' = TRUE
         ELSE UNCHANGED <<binds, exit_hotkey>>
    /\ up_pc' = "save_create"
    /\ UNCHANGED <<pureVars, fitVars, cfg, proc, waybar_was_stopped, span, window, reflow_tick,
                   up_res, up_fail, up_hist, handler_installed, shutting_down, dn,
                   state_file, child, waybar, effects>>

\* save_gamescope_state: std::fs::write creates (truncates) the file ...
UpSaveCreate ==
    /\ proc = "running" /\ up_pc = "save_create"
    /\ \E ok \in BOOLEAN :
         IF ok
         THEN state_file' = FilePartial /\ up_pc' = "save_write" /\ UNCHANGED up_fail
         ELSE Fail("save") /\ UNCHANGED state_file
    /\ up_hist' = [up_hist EXCEPT !.trace = Append(@, "save"), !.writes = @ + 1]
    /\ UNCHANGED <<pureVars, fitVars, cfg, proc, waybar_was_stopped, exit_hotkey, span, window,
                   reflow_tick, up_res, handler_installed, shutting_down, dn,
                   child, waybar, binds, effects>>

\* ... and then writes the JSON into it
UpSaveWrite ==
    /\ proc = "running" /\ up_pc = "save_write"
    /\ \E ok \in BOOLEAN :
         IF ok
         THEN /\ state_file' = GamescopeState(ChildPid, span, final_args,
                                               waybar_was_stopped, exit_hotkey)
              /\ up_pc' = "set_handler"
              /\ UNCHANGED up_fail
         ELSE Fail("save") /\ UNCHANGED state_file
    /\ UNCHANGED <<pureVars, fitVars, cfg, proc, waybar_was_stopped, exit_hotkey, span, window,
                   reflow_tick, up_res, up_hist, handler_installed, shutting_down, dn,
                   child, waybar, binds, effects>>

\* ctrlc::set_handler(..)?
UpSetHandler ==
    /\ proc = "running" /\ up_pc = "set_handler"
    /\ \E ok \in BOOLEAN :
         IF ok
         THEN handler_installed' = TRUE /\ up_pc' = "try_wait" /\ UNCHANGED up_fail
         ELSE Fail("set_handler") /\ UNCHANGED handler_installed
    /\ Started("handler")
    /\ UNCHANGED <<pureVars, fitVars, cfg, proc, waybar_was_stopped, exit_hotkey, span, window,
                   reflow_tick, up_res, shutting_down, dn, envVars>>

\* The end of one loop iteration: reflow_tick.wrapping_add(1), sleep 1 s.
next_tick ==
    /\ reflow_tick' = reflow_tick + 1
    /\ window' = LaunchSelector
    /\ up_pc' = "try_wait"

\* loop { if let Ok(Some(status)) = child.try_wait() {..}; if reflow_tick % 2 == 0 ..
UpTryWait ==
    /\ proc = "running" /\ up_pc = "try_wait"
    /\ LET counted == [up_hist EXCEPT
                           !.waits = @ + 1,
                           !.trace = IF up_hist.waits = 0 THEN Append(@, "tick") ELSE @]
       IN IF try_wait_exited(child)
          THEN /\ child' = "reaped"
               /\ up_hist' = [counted EXCEPT !.exit_seen = TRUE]
               /\ up_pc' = exit_after_try_wait(waybar_was_stopped, exit_hotkey)
               /\ UNCHANGED <<reflow_tick, window>>
          ELSE /\ reflow_tick < MaxTicks
               /\ IF reflow_due(reflow_tick)
                  THEN /\ up_pc' = "reflow_selector"
                       /\ up_hist' = [counted EXCEPT !.reflow_ticks = @ \cup {reflow_tick}]
                       /\ UNCHANGED <<reflow_tick, window>>
                  ELSE next_tick /\ up_hist' = counted
               /\ UNCHANGED child
    /\ UNCHANGED <<pureVars, fitVars, cfg, proc, waybar_was_stopped, exit_hotkey, span,
                   up_res, up_fail, handler_installed, shutting_down, dn, state_file,
                   waybar, binds, effects>>

\* child exited: maybe_start_waybar(verbose)?: pgrep -x waybar
UpExitWaybarCheck ==
    /\ proc = "running" /\ up_pc = "exit_wb_check"
    /\ \E ran \in BOOLEAN :
         /\ IF ~ran THEN Fail("exit_waybar")
            ELSE /\ up_pc' = IF waybar = "running" THEN exit_after_waybar(exit_hotkey)
                             ELSE "exit_wb_spawn"
                 /\ UNCHANGED up_fail
         /\ effects' = CommandRan(ran)
    /\ UNCHANGED <<pureVars, fitVars, cfg, proc, waybar_was_stopped, exit_hotkey, span, window,
                   reflow_tick, up_res, up_hist, handler_installed, shutting_down, dn,
                   state_file, child, waybar, binds>>

\* child exited: maybe_start_waybar(verbose)?: spawn waybar
UpExitWaybarSpawn ==
    /\ proc = "running" /\ up_pc = "exit_wb_spawn"
    /\ \E ok \in BOOLEAN :
         IF ok
         THEN /\ waybar' = "running"
              /\ effects' = [effects EXCEPT !.waybar_starts = @ + 1]
              /\ up_pc' = exit_after_waybar(exit_hotkey)
              /\ UNCHANGED up_fail
         ELSE Fail("exit_waybar") /\ effects' = CommandRan(FALSE) /\ UNCHANGED waybar
    /\ UNCHANGED <<pureVars, fitVars, cfg, proc, waybar_was_stopped, exit_hotkey, span, window,
                   reflow_tick, up_res, up_hist, handler_installed, shutting_down, dn,
                   state_file, child, binds>>

\* child exited: unregister_exit_hotkey(hotkey, verbose)
UpExitUnbind ==
    /\ proc = "running" /\ up_pc = "exit_unbind"
    /\ \E ok \in BOOLEAN :
         /\ binds' = Unbound(ok)
         /\ effects' = [CommandRan(ok) EXCEPT !.unbinds = @ + 1]
    /\ up_pc' = "exit_remove"
    /\ UNCHANGED <<pureVars, fitVars, cfg, proc, waybar_was_stopped, exit_hotkey, span, window,
                   reflow_tick, up_res, up_fail, up_hist, handler_installed, shutting_down,
                   dn, state_file, child, waybar>>

\* child exited: let _ = std::fs::remove_file(..); break; Ok(())
UpExitRemove ==
    /\ proc = "running" /\ up_pc = "exit_remove"
    /\ state_file' = FileAbsent
    /\ up_pc' = "ret_ok"
    /\ UNCHANGED <<pureVars, fitVars, cfg, proc, waybar_was_stopped, exit_hotkey, span, window,
                   reflow_tick, up_res, up_fail, up_hist, handler_installed, shutting_down,
                   dn, child, waybar, binds, effects>>

\* reflow: if let Ok(window) = get_primary_window_selector(..)
UpReflowSelector ==
    /\ proc = "running" /\ up_pc = "reflow_selector"
    /\ \E ok \in BOOLEAN :
         IF ok
         THEN /\ up_pc' = "reflow_float"
              /\ window' = TickSelector(reflow_tick)
              /\ UNCHANGED <<reflow_tick, up_hist>>
         ELSE /\ next_tick
              /\ up_hist' = [up_hist EXCEPT !.reflow_err = TRUE]
    /\ UNCHANGED <<pureVars, fitVars, cfg, proc, waybar_was_stopped, exit_hotkey, span,
                   up_res, up_fail, handler_installed, shutting_down, dn, envVars>>

\* reflow: let _ = dispatch setfloating; then fit_window_to_span is entered
UpReflowFloat ==
    /\ proc = "running" /\ up_pc = "reflow_float"
    /\ up_pc' = "fit_reflow"
    /\ fit_begin("reflow", span)
    /\ \E ok \in BOOLEAN :
         up_hist' = IF ok THEN up_hist
                    ELSE [up_hist EXCEPT !.reflow_err = TRUE]
    /\ UNCHANGED <<pureVars, win, cfg, proc, waybar_was_stopped, exit_hotkey, span, window,
                   reflow_tick, up_res, up_fail, handler_installed, shutting_down,
                   dn, envVars>>

\* reflow: let _ = fit_window_to_span(..)
UpReflowFitReturn ==
    /\ proc = "running" /\ up_pc = "fit_reflow" /\ fit_pc = "done"
    /\ IF reflow_fit_outcome(fit_res) = "fail"
       THEN Fail("reflow_fit") /\ UNCHANGED <<reflow_tick, window>>
       ELSE /\ IF cfg.no_pin THEN next_tick
               ELSE up_pc' = "reflow_pin" /\ UNCHANGED <<reflow_tick, window>>
            /\ UNCHANGED up_fail
    /\ up_hist' = IF fit_res = "err"
                  THEN [up_hist EXCEPT !.reflow_err = TRUE]
                  ELSE up_hist
    /\ fit_reset
    /\ UNCHANGED <<pureVars, win, cfg, proc, waybar_was_stopped, exit_hotkey, span,
                   up_res, handler_installed, shutting_down, dn, envVars>>

\* reflow: let _ = dispatch pin
UpReflowPin ==
    /\ proc = "running" /\ up_pc = "reflow_pin"
    /\ next_tick
    /\ \E ok \in BOOLEAN :
         up_hist' = IF ok THEN up_hist ELSE [up_hist EXCEPT !.reflow_err = TRUE]
    /\ UNCHANGED <<pureVars, fitVars, cfg, proc, waybar_was_stopped, exit_hotkey, span,
                   up_res, up_fail, handler_installed, shutting_down, dn, envVars>>

\* rollback: let _ = maybe_start_waybar(verbose): pgrep -x waybar
UpRollbackWaybarCheck ==
    /\ proc = "running" /\ up_pc = "rb_wb_check"
    /\ up_hist' = [up_hist EXCEPT !.rb_waybar = TRUE]
    /\ \E ran \in BOOLEAN :
         /\ up_pc' = IF ran /\ waybar # "running" THEN "rb_wb_spawn"
                     ELSE rollback_after_waybar(exit_hotkey)
         /\ effects' = CommandRan(ran)
    /\ UNCHANGED <<pureVars, fitVars, cfg, proc, waybar_was_stopped, exit_hotkey, span, window,
                   reflow_tick, up_res, up_fail, handler_installed, shutting_down, dn,
                   state_file, child, waybar, binds>>

\* rollback: let _ = maybe_start_waybar(verbose): spawn waybar
UpRollbackWaybarSpawn ==
    /\ proc = "running" /\ up_pc = "rb_wb_spawn"
    /\ \E ok \in BOOLEAN :
         IF ok
         THEN waybar' = "running" /\ effects' = [effects EXCEPT !.waybar_starts = @ + 1]
         ELSE effects' = CommandRan(FALSE) /\ UNCHANGED waybar
    /\ up_pc' = rollback_after_waybar(exit_hotkey)
    /\ UNCHANGED <<pureVars, fitVars, cfg, proc, waybar_was_stopped, exit_hotkey, span, window,
                   reflow_tick, up_res, up_fail, up_hist, handler_installed, shutting_down,
                   dn, state_file, child, binds>>

\* rollback: unregister_exit_hotkey(hotkey, verbose)
UpRollbackUnbind ==
    /\ proc = "running" /\ up_pc = "rb_unbind"
    /\ up_hist' = [up_hist EXCEPT !.rb_unbind = TRUE]
    /\ \E ok \in BOOLEAN :
         /\ binds' = Unbound(ok)
         /\ effects' = [CommandRan(ok) EXCEPT !.unbinds = @ + 1]
    /\ up_pc' = "ret_err"
    /\ UNCHANGED <<pureVars, fitVars, cfg, proc, waybar_was_stopped, exit_hotkey, span, window,
                   reflow_tick, up_res, up_fail, handler_installed, shutting_down, dn,
                   state_file, child, waybar>>

\* gamescope_up returns `result`; main returns it and the process ends
UpReturn ==
    /\ proc = "running" /\ up_pc \in {"ret_ok", "ret_err"}
    /\ proc' = "returned"
    /\ up_res' = IF up_pc = "ret_ok" THEN "ok" ELSE "err"
    /\ up_hist' = [up_hist EXCEPT !.file_at_ret = state_file]
    /\ up_pc' = "returned"
    /\ UNCHANGED <<pureVars, fitVars, cfg, waybar_was_stopped, exit_hotkey, span, window,
                   reflow_tick, up_fail, handler_installed, shutting_down, dn, envVars>>

(***************************************************************************)
(* Spec: one session                                                       *)
(***************************************************************************)
SessionMonitors == <<Monitor(-2, 0, 2, 2), Monitor(0, 0, 3, 4)>>

\* A window that adds a decoration offset, and one whose offset is as large as
\* the span (which the fit cannot compensate); both stay in the client list.
\* The flag vector after ensure_game_command: a nested width given by the user,
\* then the game command.
SessionArgs == <<Arg("-w", ""), Str(2), Arg("--", ""), Arg("game", "")>>

FittingWindow == [off |-> <<2, 0>>, sizes |-> {}, shifts |-> {}, vanish |-> FALSE]
StubbornWindow == [off |-> <<5, 4>>, sizes |-> {}, shifts |-> {}, vanish |-> FALSE]
SessionWindows == {FittingWindow, StubbornWindow}

\* The sessions explored: every configuration and environment with the window
\* that can be fitted, one plain configuration with the one that cannot.
SessionInputs ==
    {<<c, w, wb, b>> \in [hide_waybar : BOOLEAN, no_pin : BOOLEAN, gamescope_args : {SessionArgs}]
                          \X SessionWindows \X {"running", "stopped"} \X {{}, {"user"}} :
        w = StubbornWindow => (~c.hide_waybar /\ ~c.no_pin /\ wb = "running" /\ b = {"user"})}

\* The sessions explored under fair scheduling: waybar is hidden, the hotkey is
\* free, the window is pinned.
FairInputs ==
    {i \in SessionInputs :
        i[1].hide_waybar /\ ~i[1].no_pin /\ i[2] = FittingWindow /\ i[3] = "running" /\ i[4] = {}}

SessionInit(inputs, file) ==
    /\ monitors \in {<<>>, SessionMonitors}
    /\ span_res = "pending"
    /\ SizeIdleInit
    /\ phase = "session"
    /\ ClientsIdle /\ ArgsIdle /\ ConfigIdle /\ WaitIdle
    /\ \E i \in inputs : cfg = i[1] /\ win = i[2] /\ waybar = i[3] /\ binds = i[4]
    /\ FitIdle
    /\ proc = "running"
    /\ up_pc = "get_monitors"
    /\ waybar_was_stopped = FALSE
    /\ exit_hotkey = FALSE
    /\ span = <<0, 0, 0, 0>>
    /\ window = NoSelector
    /\ reflow_tick = 0
    /\ up_res = "none"
    /\ up_fail = "none"
    /\ up_hist = NoHist
    /\ handler_installed = FALSE
    /\ shutting_down = FALSE
    /\ dn = [e \in Executors |-> IF e = Cli THEN DownIdle ELSE [DownIdle EXCEPT !.pc = "idle"]]
    /\ state_file = file
    /\ child = "none"
    /\ effects = [NoEffects EXCEPT !.earlier = IF file = FileAbsent THEN "none" ELSE "running"]

Init == SessionInit(SessionInputs, FileAbsent)

InitFair == SessionInit(FairInputs, FileAbsent)

\* The main thread of the gamescope_up process.
UpStep ==
    \/ UpGetMonitors
    \/ UpPickers
    \/ UpStopWaybarCheck
    \/ UpStopWaybarKill
    \/ UpSpawn
    \/ UpWaitClient
    \/ UpSetFloating
    \/ UpFitStep
    \/ UpInitialFitReturn
    \/ UpPin
    \/ UpHotkeyCheck
    \/ UpHotkeyBind
    \/ UpSaveCreate
    \/ UpSaveWrite
    \/ UpSetHandler
    \/ UpTryWait
    \/ UpExitWaybarCheck
    \/ UpExitWaybarSpawn
    \/ UpExitUnbind
    \/ UpExitRemove
    \/ UpReflowSelector
    \/ UpReflowFloat
    \/ UpReflowFitReturn
    \/ UpReflowPin
    \/ UpRollbackWaybarCheck
    \/ UpRollbackWaybarSpawn
    \/ UpRollbackUnbind
    \/ UpReturn

\* A handler thread past the guard: gamescope_down, then exit(130).
HandlerRun(h) == DownStep(h) \/ HandlerExit(h)

Next ==
    \/ UpStep
    \/ ChildExits
    \/ \E h \in Handlers : HandlerSwap(h)
    \/ \E h \in Handlers : HandlerRun(h)
    \/ DownStep(Cli)

Spec == Init /\ [][Next]_vars

\* The sessions of FairInputs with their threads scheduled fairly: the main thread and a
\* handler thread that has started keep running while they can.  Signals, the
\* child's exit and the standalone gamescope_down stay unforced.
FairSpec ==
    /\ InitFair
    /\ [][Next]_vars
    /\ WF_vars(UpStep)
    /\ \A h \in Handlers : WF_vars(HandlerRun(h))

(***************************************************************************)
(* SpecHost: one session on a host that is not pristine                    *)
(***************************************************************************)
\* What an earlier gamescope_up, whose gamescope is still running, has saved.
EarlierState == GamescopeState(EarlierPid, <<-2, 0, 5, 4>>, SessionArgs, FALSE, FALSE)

\* The user has bound SUPER SHIFT+F12, and `hyprctl binds` prints that bind
\* without the text "SUPER SHIFT, F12" on one line.
ForeignBindInputs ==
    {<<[hide_waybar |-> TRUE, no_pin |-> FALSE, gamescope_args |-> SessionArgs],
       FittingWindow, "running", {"foreign"}>>}

InitHost ==
    \/ SessionInit(ForeignBindInputs, FileAbsent)
    \/ SessionInit(FairInputs, EarlierState)

SpecHost == InitHost /\ [][Next]_vars

(***************************************************************************)
(* Properties of compute_monitor_span (SpecSpan)                           *)
(***************************************************************************)
MonIdx == 1..Len(monitors)

\* A rectangle <<x, y, w, h>> covers monitor m.
Covers(r, m) ==
    /\ r[1] <= m.x
    /\ r[2] <= m.y
    /\ m.x + m.width <= r[1] + r[3]
    /\ m.y + m.height <= r[2] + r[4]

\* Every rectangle that could cover monitors of the domain.
CandidateRects ==
    {<<x, y, w, h>> : x \in -3..2, y \in -1..2, w \in 0..7, h \in 0..4}

\* C8: for a non-empty monitor list compute_monitor_span returns the origin
\* (min m.x, min m.y) and the size (max (m.x + m.width) - origin_x,
\* max (m.y + m.height) - origin_y); that rectangle covers every monitor and every
\* rectangle covering all monitors covers it (no strictly smaller one does); the
\* two-monitor example gives origin (-1920, 0) and size 4480x1440.
C8_SpanIsBoundingBox ==
    /\ compute_monitor_span(<<Monitor(-1920, 0, 1920, 1080), Monitor(0, 0, 2560, 1440)>>)
         = Ok(<<-1920, 0, 4480, 1440>>)
    /\ (phase = "span_done" /\ monitors # <<>>) =>
         /\ span_res.tag = "Ok"
         /\ LET ox == span_res.val[1]
                oy == span_res.val[2]
                w == span_res.val[3]
                h == span_res.val[4]
            IN /\ \A i \in MonIdx : ox <= monitors[i].x
               /\ \E i \in MonIdx : ox = monitors[i].x
               /\ \A i \in MonIdx : oy <= monitors[i].y
               /\ \E i \in MonIdx : oy = monitors[i].y
               /\ \A i \in MonIdx : monitors[i].x + monitors[i].width <= ox + w
               /\ \E i \in MonIdx : monitors[i].x + monitors[i].width = ox + w
               /\ \A i \in MonIdx : monitors[i].y + monitors[i].height <= oy + h
               /\ \E i \in MonIdx : monitors[i].y + monitors[i].height = oy + h
               /\ \A i \in MonIdx : Covers(span_res.val, monitors[i])
               /\ \A r \in CandidateRects :
                    (\A i \in MonIdx : Covers(r, monitors[i]))
                        => Covers(r, Monitor(ox, oy, w, h))

\* Two monitors, the second one further left and higher up than the first.
C8_Witness ==
    /\ phase = "span_done"
    /\ Len(monitors) = 2
    /\ monitors[2].x < monitors[1].x
    /\ monitors[2].y < monitors[1].y
    /\ monitors[1].width > 0 /\ monitors[2].width > 0
    /\ span_res.tag = "Ok"
    /\ span_res.val[1] = monitors[2].x

\* C9: an empty monitor list gives an error, never a zero-size span; a non-empty
\* list whose monitors all have width > 0 and height > 0 gives a span with
\* width > 0 and height > 0.
C9_EmptyIsErrorElsePositive ==
    phase = "span_done" =>
        /\ monitors = <<>> => span_res.tag = "Err"
        /\ (/\ monitors # <<>>
            /\ \A i \in MonIdx : monitors[i].width > 0 /\ monitors[i].height > 0)
             => /\ span_res.tag = "Ok"
                /\ span_res.val[3] > 0
                /\ span_res.val[4] > 0

C9_Witness ==
    /\ phase = "span_done"
    /\ monitors = <<>>
    /\ span_res.tag = "Err"

(***************************************************************************)
(* Properties of the size policy (SpecSize)                                *)
(***************************************************************************)
EvenInRange(v, bound) == v % 2 = 0 /\ v >= 2 /\ v <= bound

\* C10 as stated: for every bound, scale and override combination
\* derive_internal_size returns a width and a height that are each even, at least
\* 2 and at most the corresponding bound.
C10_Original ==
    phase = "internal_done" =>
        /\ EvenInRange(sz_out[1], sz_in.bw)
        /\ EvenInRange(sz_out[2], sz_in.bh)

\* C10 amended: on each axis whose bound is at least 2 the result is even, at
\* least 2 and at most the bound (bound 5 gives 4); on an axis whose bound is
\* below 2 the result is 2.
C10_InternalEvenWithinBound ==
    /\ derive_internal_size(5, 5, <<1, 1>>, None, None) = <<4, 4>>
    /\ phase = "internal_done" =>
        /\ sz_in.bw >= 2 => EvenInRange(sz_out[1], sz_in.bw)
        /\ sz_in.bh >= 2 => EvenInRange(sz_out[2], sz_in.bh)
        /\ sz_in.bw < 2 => sz_out[1] = 2
        /\ sz_in.bh < 2 => sz_out[2] = 2

\* An odd bound reached by an over-large override on one axis, inferred other axis.
C10_Witness ==
    /\ phase = "internal_done"
    /\ sz_in.bw = 5 /\ sz_in.bh = 3
    /\ sz_in.ow = Some(9) /\ sz_in.oh = None
    /\ sz_out = <<4, 2>>

\* C11 as stated: for every span and every override combination, no override at
\* all included, derive_output_size returns a width and a height that are each
\* even, at least 2 and at most the corresponding span dimension.
C11_Original ==
    phase = "output_done" =>
        /\ EvenInRange(sz_out[1], sz_in.bw)
        /\ EvenInRange(sz_out[2], sz_in.bh)

\* C11 amended: with at least one override present derive_output_size returns,
\* on each axis whose span dimension is at least 2, a value that is even, at
\* least 2 and at most that span dimension, and 2 on an axis whose span dimension
\* is below 2; with no override it returns the span unchanged, odd or below 2 as
\* it may be.
C11_OutputEvenWithinSpanWhenOverridden ==
    phase = "output_done" =>
        IF sz_in.ow = None /\ sz_in.oh = None
        THEN sz_out = <<sz_in.bw, sz_in.bh>>
        ELSE /\ sz_in.bw >= 2 => EvenInRange(sz_out[1], sz_in.bw)
             /\ sz_in.bh >= 2 => EvenInRange(sz_out[2], sz_in.bh)
             /\ sz_in.bw < 2 => sz_out[1] = 2
             /\ sz_in.bh < 2 => sz_out[2] = 2

\* An over-large height override against an odd span: 7x5 gives 6x4.
C11_Witness ==
    /\ phase = "output_done"
    /\ sz_in.bw = 7 /\ sz_in.bh = 5
    /\ sz_in.ow = None /\ sz_in.oh = Some(9)
    /\ sz_out = <<6, 4>>

\* v clamped to [2, bound] and rounded down to even, for a bound of at least 2
ClampedEven(v, bound) ==
    LET c == IF v < 2 THEN 2 ELSE IF v > bound THEN bound ELSE v
    IN c - (c % 2)

\* k is n / d rounded to the nearest integer, a half rounded away from zero (d > 0)
IsRounded(k, n, d) ==
    /\ 2 * Abs(k * d - n) <= d
    /\ 2 * Abs(k * d - n) = d => Abs(k) * d > Abs(n)

\* res_given / res_other follow the one-override rule for the override `given`
\* on the axis bounded by gb, the other axis being bounded by ob.
OneOverrideRule(given, gb, ob, res_given, res_other) ==
    /\ res_given = ClampedEven(given, gb)
    /\ \E k \in 0..ob :
         /\ IsRounded(k, res_given * ob, gb)
         /\ res_other = ClampedEven(k, ob)
    /\ Abs(res_other * gb - res_given * ob) <= 2 * gb

\* C12: with exactly one dimension overridden (bounds of at least 2), in
\* derive_output_size and in derive_internal_size, the given dimension is the
\* override clamped to [2, bound] and rounded down to even, the other one is
\* round(given * other_bound / given_bound) of that clamped value, clamped to
\* [2, other_bound] and rounded down to even, which is within 2 of the exact
\* aspect-ratio value; 1920x1080 with virtual_width 1601 gives 1600x900.
C12_OneOverrideInfersOther ==
    /\ derive_internal_size(1920, 1080, <<1, 1>>, Some(1601), None) = <<1600, 900>>
    /\ (/\ phase \in {"internal_done", "output_done"}
        /\ sz_in.bw >= 2 /\ sz_in.bh >= 2) =>
          /\ (sz_in.ow # None /\ sz_in.oh = None) =>
                OneOverrideRule(Unwrap(sz_in.ow), sz_in.bw, sz_in.bh, sz_out[1], sz_out[2])
          /\ (sz_in.ow = None /\ sz_in.oh # None) =>
                OneOverrideRule(Unwrap(sz_in.oh), sz_in.bh, sz_in.bw, sz_out[2], sz_out[1])

\* Width 3 given against 4x7: 2 wide, 2 * 7 / 4 = 3.5 rounds to 4.
C12_Witness ==
    /\ phase = "internal_done"
    /\ sz_in.bw = 4 /\ sz_in.bh = 7
    /\ sz_in.ow = Some(3) /\ sz_in.oh = None
    /\ sz_out = <<2, 4>>

\* C13: with both dimensions overridden, in derive_output_size and in
\* derive_internal_size, each result dimension is its own override clamped to
\* [2, its own bound] and rounded down to even (2 when the bound is below 2),
\* whatever the other axis and the render scale are.
C13_BothOverridesIndependent ==
    (/\ phase \in {"internal_done", "output_done"}
     /\ sz_in.ow # None /\ sz_in.oh # None) =>
        /\ sz_out[1] = IF sz_in.bw < 2 THEN 2 ELSE ClampedEven(Unwrap(sz_in.ow), sz_in.bw)
        /\ sz_out[2] = IF sz_in.bh < 2 THEN 2 ELSE ClampedEven(Unwrap(sz_in.oh), sz_in.bh)

\* An odd width override inside its bound, a height override above its bound,
\* and a scale that would halve both.
C13_Witness ==
    /\ phase = "internal_done"
    /\ sz_in.bw = 6 /\ sz_in.bh = 4
    /\ sz_in.scale = <<1, 2>>
    /\ sz_in.ow = Some(5) /\ sz_in.oh = Some(9)
    /\ sz_out = <<4, 4>>

\* C14: with no override derive_output_size returns the span unchanged, and
\* derive_internal_size returns per axis round(bound * scale) clamped to
\* [2, bound] and rounded down to even (2 when the bound is below 2); 4480x1440
\* at scale 0.75 gives 3360x1080, and a scale of 1 or more gives the bound
\* rounded down to even.
C14_NoOverrideIdentityOrScaled ==
    /\ derive_internal_size(4480, 1440, <<3, 4>>, None, None) = <<3360, 1080>>
    /\ (sz_in.ow = None /\ sz_in.oh = None) =>
          /\ phase = "output_done" => sz_out = <<sz_in.bw, sz_in.bh>>
          /\ phase = "internal_done" =>
                \A ax \in {1, 2} :
                    LET b == IF ax = 1 THEN sz_in.bw ELSE sz_in.bh
                    IN IF b < 2 THEN sz_out[ax] = 2
                       ELSE /\ \E k \in (-b)..(2 * b) :
                                 /\ IsRounded(k, b * sz_in.scale[1], sz_in.scale[2])
                                 /\ sz_out[ax] = ClampedEven(k, b)
                            /\ sz_in.scale[1] >= sz_in.scale[2] => sz_out[ax] = b - (b % 2)

\* 6x7 at scale 0.75: round(4.5) = 5 gives 4, round(5.25) = 5 gives 4.
C14_Witness ==
    /\ phase = "internal_done"
    /\ sz_in.bw = 6 /\ sz_in.bh = 7
    /\ sz_in.scale = <<3, 4>>
    /\ sz_in.ow = None /\ sz_in.oh = None
    /\ sz_out = <<4, 4>>

(***************************************************************************)
(* Properties of fit_window_to_span (SpecFit)                              *)
(***************************************************************************)
FitReturned == fit_pc = "done"

\* C5 as stated: whenever every attempt observes the target position and the
\* requested size plus one fixed per-axis offset, fit_window_to_span returns
\* success within its 4 attempts, for every offset and every target size.
C5_Original ==
    (FitReturned /\ fit_const) => (fit_res = "fit" /\ fit_attempt <= MaxAttempts)

\* C5 amended: the same, for every offset that on each axis is smaller than the
\* target size on that axis (the request is never lowered below 2, so a larger
\* offset cannot be compensated).
C5_ConstantOffsetConverges ==
    (/\ FitReturned
     /\ fit_const
     /\ win.off[1] < fit_tgt[3]
     /\ win.off[2] < fit_tgt[4])
        => (fit_res = "fit" /\ fit_attempt <= MaxAttempts)

\* A constant offset outside the tolerance, compensated on the second attempt.
C5_Witness ==
    /\ FitReturned
    /\ fit_caller = "direct"
    /\ fit_const
    /\ win.off = <<2, -2>>
    /\ fit_attempt = 2
    /\ fit_req = <<fit_tgt[3] - 2, fit_tgt[4] + 2>>
    /\ fit_res = "fit"

(***************************************************************************)
(* Properties of the session (Spec)                                        *)
(***************************************************************************)
\* A handler run that went past the guard runs gamescope_down.
RanTeardown(h) == dn[h].pc \notin {"idle", "noop"}

DownReturned(e) == dn[e].pc \in {"ret_ok", "ret_err", "exit130"}

\* C1: however many interrupt signals arrive and however the handler runs
\* interleave, at most one run invokes gamescope_down; a run that found the
\* guard set returns without any teardown step.
C1_TeardownAtMostOnce ==
    /\ Cardinality({h \in Handlers : RanTeardown(h)}) <= 1
    /\ \A h \in Handlers :
         dn[h].pc = "noop" =>
            /\ dn[h].did = {}
            /\ dn[h].st = Nothing
            /\ shutting_down
            /\ \E g \in Handlers : g # h /\ RanTeardown(g)

\* Two signals: the first run is inside gamescope_down, the second was a no-op.
C1_Witness ==
    /\ dn[1].pc = "remove"
    /\ "kill" \in dn[1].did
    /\ dn[2].pc = "noop"

\* C2 as stated: once gamescope_down has loaded the SessionState, every remaining
\* cleanup step (kill, delete the state file, restart waybar if recorded, unbind
\* the hotkey if recorded) is attempted whatever failed before.
C2_AllCleanupStepsAttempted ==
    \A e \in Executors :
        (DownReturned(e) /\ dn[e].st # Nothing) =>
            /\ "kill" \in dn[e].did
            /\ "remove" \in dn[e].did
            /\ dn[e].st.waybar_was_stopped => "waybar" \in dn[e].did
            /\ dn[e].st.exit_hotkey => "unbind" \in dn[e].did

\* C3 as stated: a gamescope_down that starts with a state file present leaves no
\* state file when it returns, Ok or Err.
C3_DownLeavesNoStateFile ==
    \A e \in Executors :
        (DownReturned(e) /\ dn[e].start # FileAbsent) => dn[e].end = FileAbsent

\* C4 as stated: after gamescope_up returns from the child-exit branch of the
\* loop the state file is absent, also when restarting waybar failed.
C4_ChildExitLeavesNoStateFile ==
    (proc = "returned" /\ up_hist.exit_seen) => up_hist.file_at_ret = FileAbsent

LoopPcs ==
    {"try_wait", "reflow_selector", "reflow_float", "fit_reflow", "reflow_pin"}

\* C6: a fit whose 4 attempts and final query all succeed without reaching the
\* target returns Ok after the warning; gamescope_up fails at the initial fit only
\* when the fit returned an error, and once the handler is installed the loop is
\* left only after the child's exit was observed.
C6_NonConvergenceIsWarning ==
    /\ (fit_pc = "done" /\ fit_attempt = MaxAttempts + 1 /\ fit_obs.tag = "Ok")
          => fit_res = "warned"
    /\ up_fail = "fit" => up_hist.init_fit = "err"
    /\ up_hist.init_fit = "warned" => up_fail \notin {"fit", "setfloating"}
    /\ (handler_installed /\ ~up_hist.exit_seen) => up_pc \in LoopPcs

\* The initial fit only warned, and so did a reflow fit that is about to return
\* to the loop.
C6_Witness ==
    /\ up_hist.init_fit = "warned"
    /\ up_pc = "fit_reflow"
    /\ fit_pc = "done"
    /\ fit_res = "warned"
    /\ fit_cmds.move = 4 /\ fit_cmds.resize = 4 /\ fit_cmds.query = 5

SetupSteps ==
    {"monitors", "picker", "stop_waybar", "spawn", "timeout", "wait_client",
     "setfloating", "fit", "pin", "save", "set_handler"}

\* C7: when a setup step fails after this session stopped waybar, gamescope_up
\* has attempted to restart waybar before it returns the error, and when the exit
\* hotkey was registered it has been unbound before the error is returned.
C7_SetupFailureRollsBack ==
    (proc = "returned" /\ up_res = "err" /\ up_fail \in SetupSteps) =>
        /\ waybar_was_stopped => up_hist.rb_waybar
        /\ exit_hotkey => up_hist.rb_unbind

\* The state could not be saved: waybar had been stopped and the hotkey bound.
C7_Witness ==
    /\ proc = "returned"
    /\ up_res = "err"
    /\ up_fail = "save"
    /\ waybar_was_stopped
    /\ exit_hotkey
    /\ up_hist.rb_waybar
    /\ up_hist.rb_unbind
    /\ waybar = "running"

ReflowPcs == LoopPcs \ {"try_wait"}

\* The ticks in which a reflow is due and the child was found running, among
\* the ticks begun so far.
ReflowSchedule ==
    {t \in 0..(up_hist.waits - 1) :
        /\ t % 2 = 0
        /\ ~(up_hist.exit_seen /\ t = up_hist.waits - 1)}

\* C16: every tick of the loop begins with the child-exit check; a reflow is
\* started in exactly the even ticks in which the child was found running; the
\* setfloating, fit and pin of a reflow use the selector resolved in that tick.
C16_ReflowEveryOtherTick ==
    /\ (handler_installed /\ up_pc = "try_wait") => up_hist.waits = reflow_tick
    /\ up_pc \in ReflowPcs =>
          /\ up_hist.waits = reflow_tick + 1
          /\ ~up_hist.exit_seen
          /\ reflow_tick % 2 = 0
    /\ up_hist.reflow_ticks = ReflowSchedule
    /\ up_pc \in {"reflow_float", "fit_reflow", "reflow_pin"} =>
          window = TickSelector(reflow_tick)

\* The second reflow, in tick 2, with the selector just resolved.
C16_Witness ==
    /\ up_pc = "fit_reflow"
    /\ reflow_tick = 2
    /\ up_hist.reflow_ticks = {0, 2}
    /\ window = TickSelector(2)

\* C17: after any failure inside a reflow the session goes on: gamescope_up has
\* not failed, the loop is still running unless the child's exit was observed,
\* every begun tick advanced the counter and every scheduled reflow was started.
C17_ReflowFailuresSwallowed ==
    up_hist.reflow_err =>
        /\ up_fail \in {"none", "exit_waybar"}
        /\ up_fail = "exit_waybar" => up_hist.exit_seen
        /\ (proc = "running" /\ ~up_hist.exit_seen) => up_pc \in LoopPcs
        /\ up_pc = "try_wait" => up_hist.waits = reflow_tick
        /\ \A t \in 0..(reflow_tick - 1) : t % 2 = 0 => t \in up_hist.reflow_ticks

\* A reflow failed earlier and the reflow of tick 2 is under way.
C17_Witness ==
    /\ up_hist.reflow_err
    /\ reflow_tick = 2
    /\ up_pc = "reflow_float"
    /\ proc = "running"

\* C18: once the loop is entered, gamescope_up is outside it only after try_wait
\* reported the child's exit; the process ends otherwise only by a handler's
\* exit(130); and when the child has exited while the loop runs, the loop
\* observes it and gamescope_up returns, unless a handler ends the process first.
C18_LoopEndsOnlyOnExitOrInterrupt ==
    /\ []((handler_installed /\ proc = "running" /\ up_pc \notin LoopPcs)
            => up_hist.exit_seen)
    /\ []((handler_installed /\ proc = "returned") => up_hist.exit_seen)
    /\ []((handler_installed /\ proc = "exited")
            => \E h \in Handlers : dn[h].pc = "exit130")
    /\ (child = "exited" /\ proc = "running" /\ up_pc \in LoopPcs)
          ~> ((up_hist.exit_seen /\ proc = "returned") \/ proc = "exited")

\* The child exited after the first tick; the loop saw it and returned Ok.
C18_Witness ==
    /\ proc = "returned"
    /\ up_res = "ok"
    /\ up_hist.exit_seen
    /\ reflow_tick >= 1
    /\ \A h \in Handlers : dn[h].pc = "idle"

IsPrefix(s, t) == Len(s) <= Len(t) /\ s = SubSeq(t, 1, Len(s))

HasStarted(step) == \E i \in 1..Len(up_hist.trace) : up_hist.trace[i] = step

ActivationOrder(no_pin) ==
    IF no_pin
    THEN <<"setfloating", "fit", "hotkey", "save", "handler", "tick">>
    ELSE <<"setfloating", "fit", "pin", "hotkey", "save", "handler", "tick">>

\* C19: the activation steps are started in the order setfloating, fit, pin
\* (only when no_pin is false), hotkey registration, state save, handler
\* installation, first tick of the loop, each at most once and none before the
\* child was spawned.
C19_ActivationOrder ==
    /\ IsPrefix(up_hist.trace, ActivationOrder(cfg.no_pin))
    /\ up_hist.trace # <<>> => child # "none"
    /\ exit_hotkey => HasStarted("hotkey")
    /\ state_file # FileAbsent => HasStarted("save")
    /\ handler_installed => HasStarted("handler")
    /\ up_hist.waits > 0 => up_hist.trace = ActivationOrder(cfg.no_pin)

\* All seven steps, pin included, and the loop in its first reflow.
C19_Witness ==
    /\ up_hist.trace = <<"setfloating", "fit", "pin", "hotkey", "save", "handler", "tick">>
    /\ up_pc = "reflow_selector"
    /\ reflow_tick = 0

\* C20: std::fs::write is called on the state file at most once per session, only
\* after the initial fit returned Ok, and not again in the loop; the state written
\* holds the child's pid, the span, the final flag vector, whether waybar was
\* stopped and the registered hotkey if any.
C20_StateWrittenOnceAfterFit ==
    /\ up_hist.writes <= 1
    /\ up_hist.writes = 1 => up_hist.init_fit \in {"fit", "warned"}
    /\ state_file # FileAbsent => up_hist.writes = 1
    /\ handler_installed => up_hist.writes = 1
    /\ state_file.kind = "state" =>
          state_file = [kind |-> "state",
                        gamescope_pid |-> ChildPid,
                        span |-> compute_monitor_span(monitors).val,
                        gamescope_args |->
                            <<Arg("-w", ""), Str(2), Arg("-W", ""), Str(5), Arg("-H", ""),
                              Str(4), Arg("-h", ""), Str(4), Arg("--", ""), Arg("game", "")>>,
                        waybar_was_stopped |-> waybar_was_stopped,
                        exit_hotkey |-> exit_hotkey]

\* The saved state of a session that stopped waybar and bound the hotkey, still
\* in place after three ticks.
C20_Witness ==
    /\ up_pc = "try_wait"
    /\ reflow_tick = 3
    /\ up_hist.writes = 1
    /\ state_file.kind = "state"
    /\ state_file.waybar_was_stopped
    /\ state_file.exit_hotkey


(***************************************************************************)
(* C21: register_exit_hotkey issues a bind only when the bind table does   *)
(* not already hold SUPER SHIFT+F12, and otherwise the session records no  *)
(* hotkey, so that no step of the session (child-exit cleanup, rollback,   *)
(* gamescope_down from the saved state) removes a bind of the combination  *)
(* that the session did not create.                                        *)
(***************************************************************************)
C21_NeverUnbindsForeignBinding ==
    [][/\ (up_pc = "hk_bind" /\ up_pc' # "hk_bind") => binds = {}
       /\ \A b \in binds : b # "hyprfinity" => b \in binds']_vars

(***************************************************************************)
(* C25: the single state file keeps a session active on the machine        *)
(* reachable: when a second gamescope_up runs while the state file of a    *)
(* first session exists, the pid the first session recorded stays          *)
(* available to teardown, so that a later gamescope_down can terminate the *)
(* first session's gamescope while it is still running.                    *)
(***************************************************************************)
C25_EarlierSessionStaysReachable ==
    (effects.earlier = "running" /\ \A e \in Executors : dn[e].st # EarlierState)
        => state_file = EarlierState

(***************************************************************************)
(* C22: primary_client_for_pid returns a client of the requested pid whose *)
(* area (width * height, a missing size counting as 0) is maximal among    *)
(* the clients of that pid, never a client of another pid, and none        *)
(* exactly when no client has the pid; the selector is address-based when  *)
(* the chosen client has an address and pid-based otherwise.               *)
(***************************************************************************)
AreaOf(c) == IF c.size = None THEN 0 ELSE Unwrap(c.size)[1] * Unwrap(c.size)[2]

C22_PrimaryIsLargestOfPid ==
    phase = "clients_done" =>
        LET cs == cl_in.clients
            own == {i \in DOMAIN cs : cs[i].pid = cl_in.pid}
            r == cl_out.primary
        IN /\ r = None <=> own = {}
           /\ r # None =>
                /\ \E i \in own : cs[i] = Unwrap(r)
                /\ \A j \in own : AreaOf(cs[j]) <= AreaOf(Unwrap(r))
           /\ cl_out.selector =
                IF r # None /\ Unwrap(r).address # None
                THEN AddressSelector(Unwrap(Unwrap(r).address))
                ELSE PidSelector(cl_in.pid)

\* The largest client belongs to another pid; of the two clients of the pid
\* the larger one, which has no address, is chosen.
C22_Witness ==
    /\ phase = "clients_done"
    /\ cl_in.clients = <<Client(100, Some("0x1"), Some(<<1, 1>>)),
                          Client(200, Some("0x1"), Some(<<2, 2>>)),
                          Client(100, None, Some(<<1, 2>>))>>
    /\ cl_out.primary = Some(Client(100, None, Some(<<1, 2>>)))
    /\ cl_out.selector = PidSelector(100)

(***************************************************************************)
(* C23: the vector returned by build_gamescope_args_with_internal holds an *)
(* output-width, an output-height, an internal-width and an                *)
(* internal-height flag before the first "--"; each of the four is         *)
(* injected exactly when the caller's flags before the separator did not   *)
(* supply it; the caller's flags before the separator are kept in order as *)
(* a prefix, and everything from the first "--" on is kept as the suffix.  *)
(***************************************************************************)
\* The part of a flag vector before its first "--" and the part from it on.
BeforeSeparator(v) ==
    IF SeparatorIndex(v) = 0 THEN v ELSE SubSeq(v, 1, SeparatorIndex(v) - 1)
FromSeparator(v) ==
    IF SeparatorIndex(v) = 0 THEN <<>> ELSE SubSeq(v, SeparatorIndex(v), Len(v))

\* The flags of a vector supply a size given by its short or its long name:
\* the name alone (the value follows), "name=value", or the short name with
\* the value attached.
Supplies(v, short, long) ==
    \E i \in DOMAIN v :
        \/ v[i].head \in {short, long} /\ v[i].rest \in {"", "="}
        \/ v[i].head = short /\ v[i].rest = "x"

Injected(v, short, long, n) ==
    IF Supplies(v, short, long) THEN <<>> ELSE <<Arg(short, ""), Str(n)>>

C23_SizeFlagsInjectedBeforeSeparator ==
    phase = "args_done" =>
        LET pre == BeforeSeparator(args_in)
            out_pre == BeforeSeparator(args_out)
        IN /\ Supplies(out_pre, "-W", "--output-width")
           /\ Supplies(out_pre, "-H", "--output-height")
           /\ Supplies(out_pre, "-w", "--nested-width")
           /\ Supplies(out_pre, "-h", "--nested-height")
           /\ Len(out_pre) >= Len(pre)
           /\ SubSeq(out_pre, 1, Len(pre)) = pre
           /\ SubSeq(out_pre, Len(pre) + 1, Len(out_pre)) =
                Injected(pre, "-W", "--output-width", ArgsSpan[1])
                \o Injected(pre, "-H", "--output-height", ArgsSpan[2])
                \o Injected(pre, "-w", "--nested-width", ArgsInternal[1])
                \o Injected(pre, "-h", "--nested-height", ArgsInternal[2])
           /\ FromSeparator(args_out) = FromSeparator(args_in)

\* The output width is given as "-W=..", the internal height only after the
\* separator: three flags are injected, the suffix is kept.
C23_Witness ==
    /\ phase = "args_done"
    /\ args_in = <<Arg("-W", "="), Arg("--", ""), Arg("-h", "")>>
    /\ args_out = <<Arg("-W", "="), Arg("-H", ""), Str(4), Arg("-w", ""), Str(4),
                     Arg("-h", ""), Str(2), Arg("--", ""), Arg("-h", "")>>

(***************************************************************************)
(* C24: gamescope_down works in a fixed order: it loads the SessionState,  *)
(* then signals the recorded pid, then deletes the state file, then        *)
(* restarts waybar (only if waybar_was_stopped is recorded), then unbinds  *)
(* the exit hotkey (only if one is recorded); no waybar restart and no     *)
(* unbind happens before the kill has been attempted.                      *)
(***************************************************************************)
C24_DownStepsInOrder ==
    \A e \in Executors :
        LET d == dn[e].did
            st == dn[e].st
        IN /\ d \cap {"kill", "remove", "waybar", "unbind"} # {} => st # Nothing
           /\ dn[e].pc = "kill" => d = {}
           /\ "remove" \in d => "kill" \in d
           /\ dn[e].pc = "remove" => d = {"kill"}
           /\ "waybar" \in d => {"kill", "remove"} \subseteq d /\ st.waybar_was_stopped
           /\ dn[e].pc \in {"wb_check", "wb_spawn"} => "unbind" \notin d
           /\ "unbind" \in d =>
                /\ {"kill", "remove"} \subseteq d
                /\ st.exit_hotkey
                /\ st.waybar_was_stopped => "waybar" \in d

\* A gamescope_down that has gone through all four steps.
C24_Witness ==
    \E e \in Executors :
        /\ {"kill", "remove", "waybar", "unbind"} \subseteq dn[e].did
        /\ dn[e].st.waybar_was_stopped
        /\ dn[e].st.exit_hotkey
        /\ dn[e].pc = "ret_ok"

C27_RenderScaleInRange ==
    phase = "config_done" =>
        LET given == IF conf_in.cli_render_scale # None THEN Unwrap(conf_in.cli_render_scale)
                     ELSE IF conf_in.config.render_scale # None
                     THEN Unwrap(conf_in.config.render_scale)
                     ELSE <<1, 1>>
            s == conf_out.render_scale
        IN /\ F32Le(RenderScaleMin, s) /\ F32Le(s, RenderScaleMax)
           /\ s = IF F32Lt(given, RenderScaleMin) THEN RenderScaleMin
                  ELSE IF F32Lt(RenderScaleMax, given) THEN RenderScaleMax
                  ELSE given

(***************************************************************************)
(* C28: apply_config uses the CLI flag vector when it is non-empty and the *)
(* config's gamescope_args otherwise, and appends "--" followed by the     *)
(* config's default_command exactly when a default_command is configured   *)
(* and the chosen vector holds no "--"; a chosen vector that holds "--" is *)
(* returned unchanged.                                                     *)
(***************************************************************************)
ChosenArgs ==
    IF conf_in.cli_args # <<>> THEN conf_in.cli_args
    ELSE IF conf_in.config.gamescope_args # None THEN Unwrap(conf_in.config.gamescope_args)
    ELSE <<>>

C28_DefaultCommandAppendedOnce ==
    phase = "config_done" =>
        LET dc == conf_in.config.default_command IN
        IF dc # None /\ SeparatorIndex(ChosenArgs) = 0
        THEN conf_out.args = ChosenArgs \o <<Arg("--", "")>> \o Unwrap(dc)
        ELSE conf_out.args = ChosenArgs

\* The CLI vector with its own "--" wins over the config's vector and is
\* returned as it is although a default command is configured.
C28_Witness ==
    /\ phase = "config_done"
    /\ conf_in.cli_args = <<Arg("-r", ""), Arg("--", ""), Arg("game", "")>>
    /\ conf_in.config.gamescope_args = Some(<<Arg("-r", ""), Str(60)>>)
    /\ conf_in.config.default_command # None
    /\ conf_in.config.default_command # Some(<<>>)
    /\ conf_out.args = conf_in.cli_args

(***************************************************************************)
(* C29: an attempt of fit_window_to_span succeeds exactly when the         *)
(* observed x, y, width and height each differ from the target by at most  *)
(* 1; on success the function returns at once and issues no further move,  *)
(* resize or query; an observation off by 2 or more on any one of the four *)
(* values never counts as success.                                         *)
(***************************************************************************)
WithinOne(g, t) == \A k \in 1..4 : g[k] - t[k] \in {-1, 0, 1}

Observed == fit_obs.tag = "Ok" /\ fit_obs.val # None

C29_SuccessIffAllWithinOne ==
    fit_caller = "direct" =>
        /\ fit_res = "fit" =>
             /\ fit_pc = "done"
             /\ Observed /\ WithinOne(Unwrap(fit_obs.val), fit_tgt)
             /\ fit_attempt <= MaxAttempts
             /\ fit_cmds.move = fit_attempt
             /\ fit_cmds.resize = fit_attempt
             /\ fit_cmds.query = fit_attempt
        \* an observation after which the call went on was not within tolerance
        /\ (fit_pc \in {"move", "resize", "query", "final"} /\ Observed) =>
             ~WithinOne(Unwrap(fit_obs.val), fit_tgt)
        /\ (fit_res = "err" /\ Observed) => ~WithinOne(Unwrap(fit_obs.val), fit_tgt)

\* Success at the second attempt with x and the width each off by one.
C29_Witness ==
    /\ fit_caller = "direct"
    /\ fit_res = "fit"
    /\ fit_attempt = 2
    /\ fit_tgt = <<-2, 0, 4, 3>>
    /\ fit_obs = Ok(Some(<<-3, 0, 3, 3>>))
    /\ fit_cmds.query = 2

(***************************************************************************)
(* C30: one call of fit_window_to_span issues at most 4 move and at most 4 *)
(* resize commands; in every attempt the move is issued before the resize  *)
(* and the resize before the geometry query; every move carries exactly    *)
(* the target position.                                                    *)
(***************************************************************************)
C30_BoundedOrderedCommands ==
    fit_caller = "direct" =>
        /\ fit_cmds.move <= MaxAttempts /\ fit_cmds.resize <= MaxAttempts
        /\ fit_pc = "move" =>
             fit_cmds.move = fit_attempt - 1 /\ fit_cmds.resize = fit_attempt - 1
             /\ fit_cmds.query = fit_attempt - 1
        /\ fit_pc = "resize" =>
             fit_cmds.move = fit_attempt /\ fit_cmds.resize = fit_attempt - 1
             /\ fit_cmds.query = fit_attempt - 1
        /\ fit_pc = "query" =>
             fit_cmds.move = fit_attempt /\ fit_cmds.resize = fit_attempt
             /\ fit_cmds.query = fit_attempt - 1
        /\ fit_cmds.resize <= fit_cmds.move /\ fit_cmds.move <= fit_cmds.resize + 1
        /\ fit_cmds.query <= fit_cmds.resize + 1
        /\ fit_cmds.move_to \subseteq {<<fit_tgt[1], fit_tgt[2]>>}

\* The fourth move has been issued after three observations away from the
\* target position.
C30_Witness ==
    /\ fit_caller = "direct"
    /\ fit_pc = "resize"
    /\ fit_attempt = MaxAttempts
    /\ fit_cmds.move = MaxAttempts
    /\ fit_cmds.resize = MaxAttempts - 1
    /\ Observed /\ Unwrap(fit_obs.val)[1] = fit_tgt[1] + 2
    /\ fit_cmds.move_to = {<<fit_tgt[1], fit_tgt[2]>>}

(***************************************************************************)
(* C31: in fit_window_to_span the requested size starts equal to the       *)
(* target size, and after every attempt that measured a geometry outside   *)
(* tolerance the next requested size is, per axis, the previous requested  *)
(* size plus (target size minus observed size).                            *)
(***************************************************************************)
\* The step is an attempt's query that measured g and went on to the next
\* attempt or to the code after the loop.
MeasuredOutside(g) ==
    /\ fit_caller = "direct"
    /\ fit_pc = "query" /\ fit_pc' \in {"move", "final"}
    /\ fit_obs' = Ok(Some(g))

FitCalled == fit_pc = "idle" /\ fit_pc' = "move"

ObservedNext == Unwrap(fit_obs'.val)

\* C31 as stated: the sum is the next request.
C31_Original ==
    [][/\ FitCalled => fit_req' = <<fit_tgt'[3], fit_tgt'[4]>>
       /\ (fit_pc = "query" /\ fit_obs'.tag = "Ok" /\ fit_obs'.val # None
              /\ MeasuredOutside(ObservedNext)) =>
            /\ fit_req'[1] = fit_req[1] + (fit_tgt[3] - ObservedNext[3])
            /\ fit_req'[2] = fit_req[2] + (fit_tgt[4] - ObservedNext[4])]_vars

\* C31 amended: the sum, but never less than 2.
C31_RequestAccumulatesWithFloor ==
    [][/\ FitCalled => fit_req' = <<fit_tgt'[3], fit_tgt'[4]>>
       /\ (fit_pc = "query" /\ fit_obs'.tag = "Ok" /\ fit_obs'.val # None
              /\ MeasuredOutside(ObservedNext)) =>
            /\ fit_req'[1] = Max(fit_req[1] + (fit_tgt[3] - ObservedNext[3]), 2)
            /\ fit_req'[2] = Max(fit_req[2] + (fit_tgt[4] - ObservedNext[4]), 2)]_vars

\* A window four wider than requested: target 2, observed 6, and the next
\* request is 2, not -2; on the other axis the sum 4 + (4 - 2) = 6 is requested.
C31_Witness ==
    /\ fit_caller = "direct"
    /\ fit_pc = "move" /\ fit_attempt = 2
    /\ fit_tgt = <<-2, 0, 2, 4>>
    /\ fit_obs = Ok(Some(<<-2, 0, 6, 2>>))
    /\ fit_req = <<2, 6>>

(***************************************************************************)
(* C38: in fit_window_to_span an attempt whose geometry query finds no     *)
(* window for the pid (or one without position or size) consumes one of    *)
(* the 4 attempts, leaves the requested size unchanged and never counts    *)
(* as success; a final query that finds no window either still ends the    *)
(* call with Ok and the warning.                                           *)
(***************************************************************************)
GeometryMissing == fit_obs' = Ok(None)

C38_MissingGeometryIsSkipped ==
    [][/\ (fit_caller = "direct" /\ fit_pc = "query" /\ GeometryMissing) =>
            /\ fit_attempt' = fit_attempt + 1
            /\ fit_attempt' <= MaxAttempts + 1
            /\ fit_pc' = (IF fit_attempt < MaxAttempts THEN "move" ELSE "final")
            /\ fit_req' = fit_req
            /\ fit_res' = "none"
       /\ (fit_caller = "direct" /\ fit_pc = "final" /\ GeometryMissing) =>
            /\ fit_pc' = "done"
            /\ fit_res' = "warned"
            /\ fit_req' = fit_req]_vars

\* Four attempts and the final query, the last of them without a window, and
\* the request still the target size: the call returned Ok with the warning.
C38_Witness ==
    /\ fit_caller = "direct"
    /\ fit_pc = "done" /\ fit_res = "warned"
    /\ fit_attempt = MaxAttempts + 1
    /\ fit_cmds.move = 4 /\ fit_cmds.resize = 4 /\ fit_cmds.query = 5
    /\ fit_obs = Ok(None)
    /\ win.off = <<4, 4>>
    /\ fit_req = <<fit_tgt[3], fit_tgt[4]>>

(***************************************************************************)
(* C32: wait_for_client_pid returns Ok only if some poll of the client     *)
(* list contained a client with the child's pid; it returns the timeout    *)
(* error only when no poll before the deadline contained one; and a        *)
(* failing or unparsable client query ends the wait at once with an error  *)
(* instead of being retried.                                               *)
(***************************************************************************)
C32_WaitOutcomes ==
    [][/\ wt'.res = "ok" => wt'.hit
       /\ wt'.res = "timeout" => (~wt'.hit /\ wt'.now >= wt'.deadline /\ wt.pc = "check")
       /\ (wt.pc = "poll" /\ wt'.last.tag = "Err") =>
            (wt'.pc = "done" /\ wt'.res = "err")
       /\ wt'.res = "err" => wt'.last.tag = "Err"]_vars

\* Two polls answered without the pid, then a query that could not be parsed:
\* the wait ended with the error although the deadline had not passed.
C32_Witness ==
    /\ phase = "wait"
    /\ wt.pc = "done" /\ wt.res = "err"
    /\ wt.polls = 3
    /\ wt.last = Err("Failed to parse hyprctl clients output")
    /\ wt.now < wt.deadline

(***************************************************************************)
(* C34: across all code paths that can end one session (the interrupt      *)
(* handler's gamescope_down, the loop's child-exit cleanup, a standalone   *)
(* gamescope_down from another process), in every interleaving, the        *)
(* unbind of the session's exit hotkey is dispatched at most once and      *)
(* waybar is started at most once.                                         *)
(***************************************************************************)
\* No step of gamescope_up failed, so the rollback after the closure has not
\* run: whatever was unbound or started, one of the three paths did it.
NoRollback == up_fail = "none"

C34_UnbindAndWaybarAtMostOnce ==
    NoRollback => (effects.unbinds <= 1 /\ effects.waybar_starts <= 1)

\* The two halves on their own, to see each of them fail.
C34_UnbindAtMostOnce == NoRollback => effects.unbinds <= 1

C34_WaybarStartedAtMostOnce == NoRollback => effects.waybar_starts <= 1

(***************************************************************************)
(* C33: a failure of register_exit_hotkey (failing bind-table query or     *)
(* failing bind command) does not fail gamescope_up: the session goes on   *)
(* to save its SessionState with no hotkey recorded, and from there to     *)
(* the interrupt handler and the steady-state loop.                        *)
(***************************************************************************)
HotkeyPcs == {"hk_check", "hk_bind"}

\* register_exit_hotkey has returned, the combination was free and yet no hotkey
\* is recorded: the query or the bind command failed.
HotkeyFailed ==
    /\ HasStarted("hotkey")
    /\ up_pc \notin HotkeyPcs
    /\ ~exit_hotkey
    /\ binds = {}

C33_HotkeyFailureIsNotFatal ==
    [][/\ (up_pc \in HotkeyPcs /\ up_pc' \notin HotkeyPcs) =>
            (up_pc' = "save_create" /\ up_fail' = "none" /\ up_res' = "none")
       /\ (up_pc = "hk_check" /\ up_pc' = "save_create") => ~exit_hotkey'
       /\ (up_pc = "hk_bind" /\ up_pc' = "save_create" /\ binds' = {}) => ~exit_hotkey'
       /\ (HotkeyFailed' /\ state_file'.kind = "state") => ~state_file'.exit_hotkey
       /\ (HotkeyFailed /\ up_pc = "save_write" /\ up_pc' = "set_handler") =>
            state_file' = GamescopeState(ChildPid, span, final_args, waybar_was_stopped, FALSE)
       /\ (HotkeyFailed /\ up_pc = "set_handler" /\ handler_installed') => up_pc' = "try_wait"
       /\ up_fail' # "hotkey"]_vars

\* After the failure the state is saved without a hotkey, the handler is
\* installed and the loop has polled the child.
C33_Witness ==
    /\ HotkeyFailed
    /\ proc = "running" /\ up_pc \in LoopPcs
    /\ handler_installed
    /\ up_hist.waits >= 1
    /\ state_file = GamescopeState(ChildPid, span, final_args, waybar_was_stopped, FALSE)
    /\ up_fail = "none"

(***************************************************************************)
(* C36: whenever gamescope_up has returned an error after spawning the     *)
(* child (startup timeout, or a failing setfloating, fit, pin or state     *)
(* save), the child is either no longer running or its pid is recorded in  *)
(* an existing SessionState file, so that a later gamescope_down can       *)
(* terminate it.                                                           *)
(***************************************************************************)
PostSpawnFailures == {"timeout", "wait_client", "setfloating", "fit", "pin", "save"}

ChildRecorded == state_file.kind = "state" /\ state_file.gamescope_pid = ChildPid

C36_FailedLaunchLeavesNoOrphan ==
    (proc = "returned" /\ up_res = "err" /\ up_fail \in PostSpawnFailures) =>
        (child # "running" \/ ChildRecorded)

(***************************************************************************)
(* C37: waybar_was_stopped is true only if hide_waybar was requested,      *)
(* waybar was running when checked and the stop command succeeded; every   *)
(* waybar restart performed by this program (rollback, child-exit          *)
(* cleanup, gamescope_down) happens only when that flag is true; and       *)
(* maybe_start_waybar starts nothing when its check finds waybar running.  *)
(***************************************************************************)
UpWaybarCheckPcs == {"exit_wb_check", "rb_wb_check"}
UpWaybarSpawnPcs == {"exit_wb_spawn", "rb_wb_spawn"}

C37_WaybarFlagGuardsRestart ==
    [][/\ (~waybar_was_stopped /\ waybar_was_stopped') =>
            /\ cfg.hide_waybar
            /\ up_pc = "stop_wb_kill"
            /\ waybar = "running" /\ waybar' = "stopped"
       /\ waybar_was_stopped' => cfg.hide_waybar
       /\ up_pc' \in UpWaybarCheckPcs \cup UpWaybarSpawnPcs => waybar_was_stopped'
       /\ \A e \in Executors :
            dn'[e].pc \in {"wb_check", "wb_spawn"} =>
                (dn'[e].st.waybar_was_stopped /\ waybar_was_stopped')
       /\ effects'.waybar_starts # effects.waybar_starts =>
            /\ waybar_was_stopped
            /\ \/ up_pc \in UpWaybarSpawnPcs
               \/ \E e \in Executors : dn[e].pc = "wb_spawn" /\ dn[e].st.waybar_was_stopped
       /\ (up_pc \in UpWaybarCheckPcs /\ waybar = "running") =>
            up_pc' \notin UpWaybarSpawnPcs
       /\ \A e \in Executors :
            (dn[e].pc = "wb_check" /\ waybar = "running") => dn'[e].pc # "wb_spawn"]_vars

\* The session stopped waybar, the child exited, and the cleanup's check found
\* waybar running again (gamescope_down had restarted it): nothing was started
\* a second time.
C37_Witness ==
    /\ waybar_was_stopped /\ cfg.hide_waybar
    /\ up_hist.exit_seen
    /\ up_pc \in {"exit_unbind", "exit_remove"}
    /\ waybar = "running"
    /\ effects.waybar_starts = 1
    /\ dn[Cli].pc = "ret_ok" /\ "waybar" \in dn[Cli].did

(***************************************************************************)
(* C40: gamescope_down invoked when no SessionState file exists returns    *)
(* an error and changes nothing: it sends no kill, starts no waybar,       *)
(* issues no unbind and creates no file.                                   *)
(***************************************************************************)
DownEffects == {"kill", "remove", "waybar", "unbind"}

\* executor e's gamescope_down found no state file when it loaded it
FoundNoFile(e) == dn[e].start = FileAbsent

C40_DownWithoutStateIsNoOp ==
    [][\A e \in Executors :
         /\ (dn[e].pc = "load" /\ dn'[e].pc # "load" /\ state_file = FileAbsent) =>
              /\ dn'[e].pc = "ret_err"
              /\ dn'[e].did = {}
              /\ envVars' = envVars
         /\ (FoundNoFile(e))' =>
              /\ dn'[e].pc \in {"ret_err", "exit130"}
              /\ dn'[e].did \cap DownEffects = {}
              /\ dn'[e].st = Nothing]_vars

\* A standalone gamescope_down run while the session is up but has not saved
\* its state yet: it returned the error; the child runs on, waybar stays
\* stopped, the hotkey stays bound and there is still no file.
C40_Witness ==
    /\ FoundNoFile(Cli)
    /\ dn[Cli].pc = "ret_err"
    /\ child = "running"
    /\ waybar = "stopped" /\ waybar_was_stopped
    /\ binds = {"hyprfinity"}
    /\ state_file = FileAbsent
    /\ effects = NoEffects

(***************************************************************************)
(* C39: in every gamescope_up launch the internal size handed to           *)
(* build_gamescope_args_with_internal does not exceed the output size on   *)
(* either axis, and the output size does not exceed the span on either     *)
(* axis, for every combination of output overrides, virtual overrides,     *)
(* render scale and size-picker result.                                    *)
(***************************************************************************)
Within(a, b) == a[1] <= b[1] /\ a[2] <= b[2]

C39_InternalWithinOutputWithinSpan ==
    phase = "launch_done" =>
        (Within(sz_out.internal, sz_out.output) /\ Within(sz_out.output, sz_in.span))

\* The same for the launches in which no preset was picked.
C39_WithoutPickedPreset ==
    (phase = "launch_done" /\ sz_out.picked = Ok(None)) =>
        (Within(sz_out.internal, sz_out.output) /\ Within(sz_out.output, sz_in.span))

(***************************************************************************)
(* C35: for a session whose waybar restart and hyprctl commands succeed,   *)
(* in every interleaving of the interrupt handler's teardown with the      *)
(* loop's child-exit cleanup, when the process has ended the SessionState  *)
(* file is absent, waybar has been restarted if this session stopped it,   *)
(* and the exit hotkey has been unbound if this session bound it.          *)
(***************************************************************************)
ProcessEnded == proc \in {"returned", "exited"}

\* The session reached its loop, no standalone gamescope_down took part, and
\* no waybar restart or unbind failed.
HandlerAndLoopOnly ==
    /\ handler_installed
    /\ dn[Cli].pc = "load"
    /\ ~effects.cmd_failed

C35_EndedSessionIsCleanedUp ==
    (ProcessEnded /\ HandlerAndLoopOnly) =>
        /\ state_file = FileAbsent
        /\ waybar_was_stopped => waybar = "running"
        /\ exit_hotkey => "hyprfinity" \notin binds

\* The handler killed the child and removed the file, the loop's cleanup
\* restarted waybar and unbound the hotkey, and the handler then ended the
\* process.
C35_Witness ==
    /\ proc = "exited" /\ HandlerAndLoopOnly
    /\ waybar_was_stopped /\ exit_hotkey
    /\ up_hist.exit_seen
    /\ dn[1].pc = "exit130" /\ "remove" \in dn[1].did
    /\ effects.waybar_starts = 1
    /\ state_file = FileAbsent /\ waybar = "running" /\ binds = {}

==============================================================================
